---------------------------- MODULE Spec2Model ----------------------------
(***************************************************************************)
(* Model of the airline data warehouse ETL pipeline:                       *)
(*   smartFileProcessor.js   (SmartFileProcessor: classifier, row          *)
(*                            standardizers, processFile)                  *)
(*   scripts/uploadAllSales.js, scripts/uploadPassengers.js                *)
(*                           (dedup and the batch / per-record load)       *)
(*                                                                         *)
(* A JavaScript string is a sequence of one-character strings, so that     *)
(* trim, toLowerCase, includes, replace(/\D/g,'') and slice are computed   *)
(* on the characters as the code computes them.  The values undefined and  *)
(* null are the one-element sequences Undefined and Null, whose element    *)
(* is no character.                                                        *)
(***************************************************************************)
EXTENDS Integers, Sequences, FiniteSets, TLC

----------------------------------------------------------------------------
(* Characters and the string primitives of the JavaScript runtime.         *)

UpperChars == <<"A","B","C","D","E","F","G","H","I","J","K","L","M","N","O","P","Q","R","S","T","U","V","W","X","Y","Z">>

LowerChars == <<"a","b","c","d","e","f","g","h","i","j","k","l","m","n","o","p","q","r","s","t","u","v","w","x","y","z">>

Digits == {"0","1","2","3","4","5","6","7","8","9"}

Whitespace == {" "}

Undefined == <<"undefined">>

Null == <<"null">>

\* String.prototype.toLowerCase, one character.
LowerChar(c) ==
  IF \E i \in 1..Len(UpperChars) : UpperChars[i] = c
  THEN LowerChars[CHOOSE i \in 1..Len(UpperChars) : UpperChars[i] = c]
  ELSE c

\* String.prototype.toUpperCase, one character.
UpperChar(c) ==
  IF \E i \in 1..Len(LowerChars) : LowerChars[i] = c
  THEN UpperChars[CHOOSE i \in 1..Len(LowerChars) : LowerChars[i] = c]
  ELSE c

toLowerCase(s) == [i \in 1..Len(s) |-> LowerChar(s[i])]

toUpperCase(s) == [i \in 1..Len(s) |-> UpperChar(s[i])]

\* String.prototype.trim: drop the leading and the trailing whitespace.
trim(s) ==
  LET nonWs == {i \in 1..Len(s) : s[i] \notin Whitespace}
  IN  IF nonWs = {} THEN <<>>
      ELSE LET first == CHOOSE i \in nonWs : \A j \in nonWs : i <= j
               last  == CHOOSE i \in nonWs : \A j \in nonWs : j <= i
           IN  SubSeq(s, first, last)

\* String.prototype.includes(sub): sub occurs as a substring of s.
includes(s, sub) ==
  \E i \in 1..(Len(s) - Len(sub) + 1) : SubSeq(s, i, i + Len(sub) - 1) = sub

\* Array.prototype.includes(x): x is an element of the array.
arrayIncludes(arr, x) == \E i \in 1..Len(arr) : arr[i] = x

----------------------------------------------------------------------------
(* The signature registry and the file type classifier.                    *)

Col ==
  [ PassengerKey |-> <<"P","a","s","s","e","n","g","e","r","K","e","y">>,
    FullName |-> <<"F","u","l","l","N","a","m","e">>,
    Email |-> <<"E","m","a","i","l">>,
    LoyaltyStatus |-> <<"L","o","y","a","l","t","y","S","t","a","t","u","s">>,
    AirportKey |-> <<"A","i","r","p","o","r","t","K","e","y">>,
    AirportName |-> <<"A","i","r","p","o","r","t","N","a","m","e">>,
    City |-> <<"C","i","t","y">>,
    Country |-> <<"C","o","u","n","t","r","y">>,
    AirlineKey |-> <<"A","i","r","l","i","n","e","K","e","y">>,
    AirlineName |-> <<"A","i","r","l","i","n","e","N","a","m","e">>,
    Alliance |-> <<"A","l","l","i","a","n","c","e">>,
    FlightKey |-> <<"F","l","i","g","h","t","K","e","y">>,
    OriginAirportKey |-> <<"O","r","i","g","i","n","A","i","r","p","o","r","t","K","e","y">>,
    DestinationAirportKey |-> <<"D","e","s","t","i","n","a","t","i","o","n","A","i","r","p","o","r","t","K","e","y">>,
    AircraftType |-> <<"A","i","r","c","r","a","f","t","T","y","p","e">>,
    TransactionID |-> <<"T","r","a","n","s","a","c","t","i","o","n","I","D">>,
    TransactionDate |-> <<"T","r","a","n","s","a","c","t","i","o","n","D","a","t","e">>,
    PassengerID |-> <<"P","a","s","s","e","n","g","e","r","I","D">>,
    FlightID |-> <<"F","l","i","g","h","t","I","D">>,
    DateKey |-> <<"D","a","t","e","K","e","y">>,
    TicketPrice |-> <<"T","i","c","k","e","t","P","r","i","c","e">>,
    Taxes |-> <<"T","a","x","e","s">>,
    BaggageFees |-> <<"B","a","g","g","a","g","e","F","e","e","s">>,
    TotalAmount |-> <<"T","o","t","a","l","A","m","o","u","n","t">>,
    Notes |-> <<"N","o","t","e","s">> ]

Frag ==
  [ passenger |-> <<"p","a","s","s","e","n","g","e","r">>,
    airport |-> <<"a","i","r","p","o","r","t">>,
    airline |-> <<"a","i","r","l","i","n","e">>,
    flight |-> <<"f","l","i","g","h","t">>,
    transaction |-> <<"t","r","a","n","s","a","c","t","i","o","n">>,
    travel |-> <<"t","r","a","v","e","l">>,
    agency |-> <<"a","g","e","n","c","y">>,
    corporate |-> <<"c","o","r","p","o","r","a","t","e">>,
    datekey |-> <<"d","a","t","e","k","e","y">> ]

\* static fileSignatures, in declaration order (Object.entries order).
fileSignatures ==
  << [ fileType |-> "passengers",
       requiredColumns |-> <<Col.PassengerKey, Col.FullName>>,
       amountColumns |-> <<>>, targetTable |-> "dim_passenger" ],
     [ fileType |-> "airports",
       requiredColumns |-> <<Col.AirportKey, Col.AirportName, Col.City, Col.Country>>,
       amountColumns |-> <<>>, targetTable |-> "dim_airport" ],
     [ fileType |-> "airlines",
       requiredColumns |-> <<Col.AirlineKey, Col.AirlineName>>,
       amountColumns |-> <<>>, targetTable |-> "dim_airline" ],
     [ fileType |-> "flights",
       requiredColumns |-> <<Col.FlightKey, Col.OriginAirportKey, Col.DestinationAirportKey>>,
       amountColumns |-> <<>>, targetTable |-> "dim_flight" ],
     [ fileType |-> "travel_agency_sales",
       requiredColumns |-> <<Col.TransactionID, Col.TransactionDate, Col.PassengerID, Col.FlightID>>,
       amountColumns |-> <<Col.TicketPrice, Col.Taxes, Col.BaggageFees, Col.TotalAmount>>,
       targetTable |-> "fact_sales" ],
     [ fileType |-> "corporate_sales",
       requiredColumns |-> <<Col.TransactionID, Col.DateKey, Col.PassengerKey, Col.FlightKey>>,
       amountColumns |-> <<Col.TicketPrice, Col.Taxes, Col.BaggageFees, Col.TotalAmount>>,
       targetTable |-> "fact_sales" ] >>

\* fileType.includes('sales'), over the six registered names.
isSalesType(fileType) == fileType \in {"travel_agency_sales", "corporate_sales"}

\* const lowerHeaders = headers.map(h => h.trim());   (trimmed, case kept)
lowerHeaders(headers) == [i \in 1..Len(headers) |-> trim(headers[i])]

\* signature.requiredColumns.every(col => lowerHeaders.includes(col.toLowerCase()))
hasRequired(signature, headers) ==
  \A i \in 1..Len(signature.requiredColumns) :
     arrayIncludes(lowerHeaders(headers), toLowerCase(signature.requiredColumns[i]))

\* signature.amountColumns?.some(col => lowerHeaders.includes(col.toLowerCase()))
hasAmountColumns(signature, headers) ==
  \E i \in 1..Len(signature.amountColumns) :
     arrayIncludes(lowerHeaders(headers), toLowerCase(signature.amountColumns[i]))

\* The test one iteration of the for-loop applies to its signature.
signaturePasses(signature, headers) ==
  IF isSalesType(signature.fileType)
  THEN hasRequired(signature, headers) /\ hasAmountColumns(signature, headers)
  ELSE hasRequired(signature, headers)

\* for (const [fileType, signature] of Object.entries(this.fileSignatures)):
\* the loop from entry i on; "none" when it runs off the end.
RECURSIVE signatureLoop(_, _)
signatureLoop(i, headers) ==
  IF i > Len(fileSignatures) THEN "none"
  ELSE IF signaturePasses(fileSignatures[i], headers)
       THEN fileSignatures[i].fileType
       ELSE signatureLoop(i + 1, headers)

\* headers.some(h => h.toLowerCase().includes(fragment))
someHeaderIncludes(headers, fragment) ==
  \E i \in 1..Len(headers) : includes(toLowerCase(headers[i]), fragment)

\* "Try fuzzy matching for common variations"
fuzzyMatch(headers) ==
  IF someHeaderIncludes(headers, Frag.passenger) THEN "passengers"
  ELSE IF someHeaderIncludes(headers, Frag.airport) THEN "airports"
  ELSE IF someHeaderIncludes(headers, Frag.airline) THEN "airlines"
  ELSE IF someHeaderIncludes(headers, Frag.flight) THEN "flights"
  ELSE IF someHeaderIncludes(headers, Frag.transaction)
       THEN IF someHeaderIncludes(headers, Frag.travel)
               \/ someHeaderIncludes(headers, Frag.agency)
            THEN "travel_agency_sales"
            ELSE IF someHeaderIncludes(headers, Frag.corporate)
                    \/ someHeaderIncludes(headers, Frag.datekey)
                 THEN "corporate_sales"
                 ELSE "travel_agency_sales"
  ELSE "unknown"

\* Every header trimmed and lowercased.
normalizedHeaders(hs) == [i \in 1..Len(hs) |-> toLowerCase(trim(hs[i]))]

\* static detectFileType(headers)
detectFileType(headers) ==
  IF signatureLoop(1, headers) # "none"
  THEN signatureLoop(1, headers)
  ELSE fuzzyMatch(headers)

----------------------------------------------------------------------------
(* Passenger key standardization: the three implementations.               *)

\* inputKey.replace(/\D/g, ''): the digits of s, in order.
digitsOf(s) == SelectSeq(s, LAMBDA c : c \in Digits)

\* s.slice(-n): the last n characters (all of s when it is shorter).
sliceLast(s, n) == IF Len(s) <= n THEN s ELSE SubSeq(s, Len(s) - n + 1, Len(s))

\* s.padStart(n, c)
RECURSIVE padStart(_, _, _)
padStart(s, n, c) == IF Len(s) >= n THEN s ELSE padStart(<<c>> \o s, n, c)

\* !inputKey || typeof inputKey !== 'string'
notAString(v) == v = Undefined \/ v = Null \/ v = <<>>

\* /\d/.test(s)
hasDigit(s) == \E i \in 1..Len(s) : s[i] \in Digits

\* s.startsWith(prefix)
startsWith(s, prefix) == Len(s) >= Len(prefix) /\ SubSeq(s, 1, Len(prefix)) = prefix

\* The marker prefix written in the wrong case: 'p' + numbers.slice(-3)...
SFP_standardizePassengerKey_lowerPrefix(inputKey) ==
  IF notAString(inputKey) THEN Null
  ELSE IF ~includes(inputKey, <<"P">>) THEN Null
  ELSE IF Len(digitsOf(inputKey)) < 3 THEN Null
  ELSE <<"p">> \o padStart(sliceLast(digitsOf(inputKey), 3), 3, "0")

\* SmartFileProcessor.standardizePassengerKey
SFP_standardizePassengerKey(inputKey) ==
  IF notAString(inputKey) THEN Null
  ELSE IF ~includes(inputKey, <<"P">>) THEN Null
  ELSE IF Len(digitsOf(inputKey)) < 3 THEN Null
  ELSE <<"P">> \o padStart(sliceLast(digitsOf(inputKey), 3), 3, "0")

\* SalesUploader.standardizePassengerKey
SalesUploader_standardizePassengerKey(inputKey) ==
  IF notAString(inputKey) THEN Null
  ELSE IF ~includes(inputKey, <<"P">>) THEN Null
  ELSE IF Len(digitsOf(inputKey)) < 3 THEN Null
  ELSE <<"P">> \o padStart(sliceLast(digitsOf(inputKey), 3), 3, "0")

\* uploadPassengers.js standardizePassengerKey
standardizePassengerKey(inputKey) ==
  IF notAString(inputKey) THEN Null
  ELSE LET key == trim(inputKey)
           numbersOnly == digitsOf(key)
       IN  IF startsWith(key, <<"P">>) /\ hasDigit(key)
           THEN IF Len(numbersOnly) < 3 THEN Null
                ELSE <<"P">> \o padStart(sliceLast(numbersOnly, 3), 3, "0")
           ELSE IF hasDigit(key)
                THEN IF Len(numbersOnly) < 3 THEN Null
                     ELSE <<"P">> \o padStart(sliceLast(numbersOnly, 3), 3, "0")
                ELSE Null

----------------------------------------------------------------------------
(* SmartFileProcessor: row standardizers.                                  *)

\* String literals of the code and of the input files.
Lit ==
  [ exampleCom |-> <<"@","e","x","a","m","p","l","e",".","c","o","m">>,
    user |-> <<"u","s","e","r">>,
    Bronze |-> <<"B","r","o","n","z","e">>,
    NA |-> <<"N","/","A">>,
    P1 |-> <<"P","1">>,
    P123 |-> <<"P","1","2","3">>,
    P001 |-> <<"P","0","0","1">>,
    JaneDoe |-> <<"J","a","n","e"," ","D","o","e">>,
    Cher |-> <<"C","h","e","r">>,
    janeDoeEmail |-> <<"j","a","n","e",".","d","o","e","@","e","x","a","m","p","l","e",".","c","o","m">>,
    JXio |-> <<"J","@","X",".","i","o">>,
    gold |-> <<"g","o","l","d">>,
    Gold |-> <<"G","o","l","d">>,
    aa |-> <<"a","a">>,
    AirA |-> <<"A","i","r"," ","A">>,
    x |-> <<"x">>,
    Unknown |-> <<"U","n","k","n","o","w","n">>,
    Platinum |-> <<"P","l","a","t","i","n","u","m">>,
    Silver |-> <<"S","i","l","v","e","r">>,
    PLATINUM |-> <<"P","L","A","T","I","N","U","M">>,
    PLAT |-> <<"P","L","A","T">>,
    GOLD |-> <<"G","O","L","D">>,
    SILVER |-> <<"S","I","L","V","E","R">>,
    SILV |-> <<"S","I","L","V">>,
    BRONZE |-> <<"B","R","O","N","Z","E">>,
    BRNZ |-> <<"B","R","N","Z">>,
    duplicate |-> <<"d","u","p","l","i","c","a","t","e">>,
    duplicateKeyMsg |-> <<"d","u","p","l","i","c","a","t","e"," ","k","e","y"," ","v","a","l","u","e">>,
    timeoutMsg |-> <<"t","i","m","e","o","u","t">>,
    fetchFailedMsg |-> <<"f","e","t","c","h"," ","f","a","i","l","e","d">>,
    k0123 |-> <<"0","1","2","3">>,
    P456 |-> <<"P","4","5","6">> ]

\* row.<column>: a parsed row is keyed by the file's headers exactly as
\* they are spelled in the file; a column that is not a header reads as
\* undefined.
field(hdrs, row, column) ==
  IF \E i \in 1..Len(hdrs) : hdrs[i] = column
  THEN row[CHOOSE i \in 1..Len(hdrs) :
             hdrs[i] = column /\ \A j \in 1..Len(hdrs) : hdrs[j] = column => j <= i]
  ELSE Undefined

\* v?.trim()
optTrim(v) == IF v = Undefined THEN Undefined ELSE trim(v)

\* /^[^\s@]+@[^\s@]+\.[^\s@]+$/.test(s)
emailRegexTest(s) ==
  /\ \A i \in 1..Len(s) : s[i] \notin Whitespace
  /\ Cardinality({i \in 1..Len(s) : s[i] = "@"}) = 1
  /\ LET at == CHOOSE i \in 1..Len(s) : s[i] = "@"
     IN  /\ at > 1
         /\ \E d \in (at + 2)..(Len(s) - 1) : s[d] = "."

\* s.split(' ')[0]
firstPiece(s) ==
  IF \E i \in 1..Len(s) : s[i] = " "
  THEN SubSeq(s, 1, (CHOOSE i \in 1..Len(s) :
                       s[i] = " " /\ \A j \in 1..(i - 1) : s[j] # " ") - 1)
  ELSE s

\* the last element of s.split(' ')
lastPiece(s) ==
  IF \E i \in 1..Len(s) : s[i] = " "
  THEN SubSeq(s, (CHOOSE i \in 1..Len(s) :
                    s[i] = " " /\ \A j \in (i + 1)..Len(s) : s[j] # " ") + 1, Len(s))
  ELSE s

\* SmartFileProcessor.standardizeEmail
SFP_standardizeEmail(fullName, existingEmail) ==
  IF existingEmail # Undefined /\ existingEmail # <<>> /\ emailRegexTest(existingEmail)
  THEN toLowerCase(existingEmail)
  ELSE LET hasNames  == fullName # Undefined
           name      == IF hasNames THEN trim(fullName) ELSE <<>>
           firstName == IF hasNames /\ firstPiece(name) # <<>>
                        THEN toLowerCase(firstPiece(name)) ELSE Lit.user
           lastName  == IF hasNames /\ includes(name, <<" ">>)
                        THEN toLowerCase(lastPiece(name)) ELSE <<>>
       IN  IF lastName # <<>>
           THEN firstName \o <<".">> \o lastName \o Lit.exampleCom
           ELSE firstName \o Lit.exampleCom

\* One iteration of processPassengerData's loop: the entry the row adds to
\* cleanData or to dirtyData.
SFP_processPassengerRow(hdrs, row) ==
  LET passengerKey == SFP_standardizePassengerKey(field(hdrs, row, Col.PassengerKey))
      loyalty      == optTrim(field(hdrs, row, Col.LoyaltyStatus))
  IN  IF passengerKey = Null
      THEN [clean |-> FALSE, row |-> row, reason |-> "Invalid passenger key"]
      ELSE [clean |-> TRUE,
            record |->
              [passenger_key  |-> passengerKey,
               full_name      |-> optTrim(field(hdrs, row, Col.FullName)),
               email          |-> SFP_standardizeEmail(field(hdrs, row, Col.FullName),
                                                       field(hdrs, row, Col.Email)),
               loyalty_status |-> IF loyalty = Undefined \/ loyalty = <<>>
                                  THEN Lit.Bronze ELSE loyalty]]

\* One element of processAirlineData's data.map(...).
SFP_processAirlineRow(hdrs, row) ==
  LET airlineKey == field(hdrs, row, Col.AirlineKey)
      alliance   == optTrim(field(hdrs, row, Col.Alliance))
  IN  [airline_key  |-> IF airlineKey = Undefined THEN Undefined
                        ELSE toUpperCase(trim(airlineKey)),
       airline_name |-> optTrim(field(hdrs, row, Col.AirlineName)),
       alliance     |-> IF alliance = Lit.NA THEN Null ELSE alliance]

\* The clean entries of a list of processed rows, in order.
RECURSIVE cleanOf(_)
cleanOf(outs) ==
  IF outs = <<>> THEN <<>>
  ELSE (IF Head(outs).clean THEN <<Head(outs).record>> ELSE <<>>) \o cleanOf(Tail(outs))

\* The rejected entries of a list of processed rows, in order.
RECURSIVE dirtyOf(_)
dirtyOf(outs) ==
  IF outs = <<>> THEN <<>>
  ELSE (IF Head(outs).clean THEN <<>>
        ELSE <<[row |-> Head(outs).row, reason |-> Head(outs).reason]>>)
       \o dirtyOf(Tail(outs))

\* SmartFileProcessor.processPassengerData
SFP_processPassengerData(hdrs, data) ==
  LET outs == [i \in 1..Len(data) |-> SFP_processPassengerRow(hdrs, data[i])]
  IN  [cleanData |-> cleanOf(outs), dirtyData |-> dirtyOf(outs)]

\* SmartFileProcessor.processAirlineData: map, then filter(row => row.airline_key)
SFP_processAirlineData(hdrs, data) ==
  [cleanData |->
     SelectSeq([i \in 1..Len(data) |-> SFP_processAirlineRow(hdrs, data[i])],
               LAMBDA r : r.airline_key # Undefined /\ r.airline_key # <<>>),
   dirtyData |-> <<>>]

\* SmartFileProcessor.getConflictColumn
getConflictColumn(tableName) ==
  CASE tableName = "dim_passenger" -> "passenger_key"
    [] tableName = "dim_airport"   -> "airport_key"
    [] tableName = "dim_airline"   -> "airline_key"
    [] tableName = "dim_flight"    -> "flight_key"
    [] tableName = "fact_sales"    -> "transaction_id"
    [] OTHER                       -> "id"

\* this.fileSignatures[fileType]
signatureOf(ft) ==
  fileSignatures[CHOOSE i \in 1..Len(fileSignatures) : fileSignatures[i].fileType = ft]

\* supabase.from(table).upsert(records, { onConflict: column }), when it
\* succeeds: rows with a conflicting key are replaced, the others added.
upserted(rows, records, column) ==
  {r \in rows : \A i \in 1..Len(records) : records[i][column] # r[column]}
    \cup {records[i] : i \in 1..Len(records)}

\* SmartFileProcessor.saveDirtyData: dirtyRows.map(item => ({...}))
dirtyRecords(dirtyRows, sourceTable) ==
  [i \in 1..Len(dirtyRows) |->
     [source_table  |-> sourceTable,
      original_data |-> dirtyRows[i].row,
      error_reason  |-> dirtyRows[i].reason]]

\* processFile without its check of the detected type.
unknownIsFatal_skipped(ft) == FALSE

\* if (fileType === 'unknown') throw new Error('Cannot detect file type...')
unknownIsFatal(ft) == ft = "unknown"

----------------------------------------------------------------------------
(* The remote store's answers.                                             *)

\* The { error } objects a store call may return: a unique violation and
\* a failure that is none.
StoreErrors ==
  { [code |-> "23505", message |-> Lit.duplicateKeyMsg],
    [code |-> "57014", message |-> Lit.timeoutMsg] }

\* The exceptions a store call may throw instead of answering.
StoreExceptions == { [message |-> Lit.fetchFailedMsg] }

\* error.code === '23505' || error.message.includes('duplicate')
isDuplicateError(error) ==
  error.code = "23505" \/ includes(error.message, Lit.duplicate)

\* The keys of the rows of a table.
keysOf(rows, column) == {r[column] : r \in rows}

\* supabase.from(table).insert(records) can succeed only if no record's key
\* is in the table already (the key column is unique).
insertable(rows, records, column) ==
  \A i \in 1..Len(records) : records[i][column] \notin keysOf(rows, column)

\* The table after a successful insert.
inserted(rows, records) == rows \cup {records[i] : i \in 1..Len(records)}

----------------------------------------------------------------------------
(* scripts/uploadPassengers.js: standardizers and the dirty table.         *)

\* standardizeLoyaltyStatus
standardizeLoyaltyStatus(status) ==
  IF notAString(status) THEN Lit.Bronze
  ELSE LET upperStatus == toUpperCase(trim(status))
       IN  IF includes(upperStatus, Lit.PLATINUM) \/ upperStatus = Lit.PLAT THEN Lit.Platinum
           ELSE IF includes(upperStatus, Lit.GOLD) \/ upperStatus = Lit.GOLD THEN Lit.Gold
           ELSE IF includes(upperStatus, Lit.SILVER) \/ upperStatus = Lit.SILV THEN Lit.Silver
           ELSE IF includes(upperStatus, Lit.BRONZE) \/ upperStatus = Lit.BRNZ THEN Lit.Bronze
           ELSE Lit.Bronze

\* standardizeEmail (uploadPassengers.js); fullName is always a string here.
standardizeEmail(fullName, existingEmail) ==
  IF existingEmail # Undefined /\ existingEmail # <<>> /\ emailRegexTest(existingEmail)
  THEN toLowerCase(existingEmail)
  ELSE LET name      == trim(fullName)
           firstName == toLowerCase(firstPiece(name))
           lastName  == IF includes(name, <<" ">>) THEN toLowerCase(lastPiece(name)) ELSE <<>>
       IN  IF lastName # <<>>
           THEN firstName \o <<".">> \o lastName \o Lit.exampleCom
           ELSE firstName \o Lit.exampleCom

\* row.FullName?.trim() || 'Unknown'
nameOrUnknown(v) == IF v = Undefined \/ trim(v) = <<>> THEN Lit.Unknown ELSE trim(v)

\* The data object uploadPassengers stores in passengerMap for a row.
passengerData(standardizedKey, row) ==
  [passenger_key  |-> standardizedKey,
   full_name      |-> nameOrUnknown(row.FullName),
   email          |-> standardizeEmail(nameOrUnknown(row.FullName), optTrim(row.Email)),
   loyalty_status |-> standardizeLoyaltyStatus(row.LoyaltyStatus)]

\* passengerMap.has(key); the map is kept as the list of its entries in
\* insertion order.
mapHas(map, key) == \E i \in 1..Len(map) : map[i].key = key

\* saveToDirtyTable(rowData, errorReason): the dirty_data table afterwards.
\* When the insert fails (saved = FALSE) the function logs, returns false,
\* and the entry is nowhere.
saveToDirtyTable(table, rowData, errorReason, saved) ==
  IF saved
  THEN Append(table, [source_table  |-> "passengers",
                      original_data |-> rowData,
                      error_reason  |-> errorReason])
  ELSE table

\* A reason string built as `${text}${arg}`.
reason(text, arg) == [text |-> text, arg |-> arg]

----------------------------------------------------------------------------
(* scripts/uploadAllSales.js: SalesUploader's row standardizers.  Amounts   *)
(* are kept in hundredths (12.50 is 1250).                                  *)

\* The number 0, as in `row.Taxes || 0`.
Zero == <<"0 (number)">>

\* a || b
orElse(a, b) == IF a \in {Undefined, Null, <<>>, Zero} THEN b ELSE a

\* The number a string of decimal digits denotes (0 for the empty string).
RECURSIVE toNumber(_)
toNumber(ds) ==
  IF ds = <<>> THEN 0
  ELSE toNumber(SubSeq(ds, 1, Len(ds) - 1)) * 10
       + (CHOOSE n \in 0..9 : <<"0","1","2","3","4","5","6","7","8","9">>[n + 1] = ds[Len(ds)])

\* The position of the first c in s, Len(s) + 1 if there is none.
indexOf(s, c) ==
  IF \E i \in 1..Len(s) : s[i] = c
  THEN CHOOSE i \in 1..Len(s) : s[i] = c /\ \A j \in 1..(i - 1) : s[j] # c
  ELSE Len(s) + 1

\* SalesUploader.standardizeAmount: String(amount).replace(/[^\d.]/g, ''),
\* parseFloat (digits, then at most one '.' and digits; NaN without a digit),
\* toFixed(2).
standardizeAmount(amount) ==
  IF amount \in {Undefined, Null, <<>>, Zero} THEN 0
  ELSE LET clean == SelectSeq(amount, LAMBDA c : c \in Digits \cup {"."})
           whole == SubSeq(clean, 1, indexOf(clean, ".") - 1)
           rest  == SubSeq(clean, indexOf(clean, ".") + 1, Len(clean))
           frac  == SubSeq(rest, 1, indexOf(rest, ".") - 1)
           f3    == SubSeq(frac \o <<"0","0","0">>, 1, 3)
       IN  IF whole = <<>> /\ frac = <<>> THEN 0
           ELSE toNumber(whole) * 100 + toNumber(SubSeq(f3, 1, 2))
                + (IF toNumber(<<f3[3]>>) >= 5 THEN 1 ELSE 0)

\* SalesUploader.standardizeDate: new Date(dateStr), null if invalid, else
\* toISOString().split('T')[0].  Input dates are 'YYYY-MM-DD' with a day up
\* to 28, which Date reads as that UTC day, or text Date cannot read.
SalesUploader_standardizeDate(dateStr) ==
  IF /\ dateStr # Undefined /\ Len(dateStr) = 10
     /\ dateStr[5] = "-" /\ dateStr[8] = "-"
     /\ \A i \in {1,2,3,4,6,7,9,10} : dateStr[i] \in Digits
     /\ toNumber(SubSeq(dateStr, 6, 7)) \in 1..12
     /\ toNumber(SubSeq(dateStr, 9, 10)) \in 1..28
  THEN dateStr
  ELSE Null

\* The transaction id with the prefix 'TA' for both source types.
transactionIdOf_samePrefix(row, sourceType) ==
  LET originalTransactionId == optTrim(row.TransactionID)
      numbers == IF originalTransactionId = Undefined THEN <<"0">>
                 ELSE orElse(digitsOf(originalTransactionId), <<"0">>)
  IN  <<"T","A">> \o padStart(numbers, 6, "0")

\* processSalesFile: the standardized transaction id of a row,
\* 'TA' or 'CO' + (digits of the trimmed TransactionID || '0').padStart(6, '0').
transactionIdOf(row, sourceType) ==
  LET originalTransactionId == optTrim(row.TransactionID)
      numbers == IF originalTransactionId = Undefined THEN <<"0">>
                 ELSE orElse(digitsOf(originalTransactionId), <<"0">>)
  IN  (IF sourceType = "travel_agency" THEN <<"T","A">> ELSE <<"C","O">>)
      \o padStart(numbers, 6, "0")

\* processSalesFile: the reason a row that passed the seen-set check is
\* rejected for, "" if it is kept.
rejectReason(row) ==
  IF SalesUploader_standardizePassengerKey(orElse(row.PassengerID, row.PassengerKey)) = Null
    THEN "Invalid passenger key"
  ELSE IF orElse(row.FlightID, row.FlightKey) \in {Undefined, <<>>}
    THEN "Missing flight key"
  ELSE IF SalesUploader_standardizeDate(orElse(row.TransactionDate, row.DateKey)) = Null
    THEN "Invalid date"
  ELSE IF row.TicketPrice \in {Undefined, <<>>}
    THEN "Missing ticket price"
  ELSE ""

\* processSalesFile: sales.push({...}); date_key is kept as its digits.
saleOf(row, sourceType) ==
  [transaction_id |-> transactionIdOf(row, sourceType),
   date_key       |-> digitsOf(SalesUploader_standardizeDate(
                                 orElse(row.TransactionDate, row.DateKey))),
   passenger_key  |-> SalesUploader_standardizePassengerKey(
                        orElse(row.PassengerID, row.PassengerKey)),
   flight_key     |-> orElse(row.FlightID, row.FlightKey),
   ticket_price   |-> standardizeAmount(row.TicketPrice),
   taxes          |-> standardizeAmount(orElse(row.Taxes, Zero)),
   baggage_fees   |-> standardizeAmount(orElse(row.BaggageFees, Zero)),
   total_amount   |-> standardizeAmount(row.TotalAmount),
   sales_source   |-> sourceType]

\* A quarantine entry { source_table, original_data, error_reason }.
dirtyEntry(sourceTable, originalData, errorReason) ==
  [source_table |-> sourceTable, original_data |-> originalData, error_reason |-> errorReason]

\* The cross-file pass of uploadAllSales over the first k records of
\* allSales: seenIds, finalSales and crossFileDuplicates.
RECURSIVE crossFile(_, _)
crossFile(allSales, k) ==
  IF k = 0 THEN [seenIds |-> {}, finalSales |-> <<>>, crossFileDuplicates |-> <<>>]
  ELSE LET before == crossFile(allSales, k - 1)
           sale   == allSales[k]
       IN  IF sale.transaction_id \in before.seenIds
           THEN [before EXCEPT !.crossFileDuplicates =
                   Append(@, dirtyEntry(sale.sales_source, sale,
                                reason("Duplicate transaction ID across files: ",
                                       sale.transaction_id)))]
           ELSE [before EXCEPT !.seenIds = @ \cup {sale.transaction_id},
                               !.finalSales = Append(@, sale)]

----------------------------------------------------------------------------
(* SmartFileProcessor.processSalesData.  Rows are the objects csv-parser    *)
(* builds (a missing column is Undefined); amounts are in hundredths.      *)

\* parseFloat of a string of digits and dots, then toFixed(2): digits, at
\* most one '.' and digits; NaN when it has no digit.
parseUnsigned(clean) ==
  LET whole == SubSeq(clean, 1, indexOf(clean, ".") - 1)
      rest  == SubSeq(clean, indexOf(clean, ".") + 1, Len(clean))
      frac  == SubSeq(rest, 1, indexOf(rest, ".") - 1)
      f3    == SubSeq(frac \o <<"0","0","0">>, 1, 3)
  IN  [nan   |-> whole = <<>> /\ frac = <<>>,
       value |-> toNumber(whole) * 100 + toNumber(SubSeq(f3, 1, 2))
                 + (IF toNumber(<<f3[3]>>) >= 5 THEN 1 ELSE 0)]

\* const standardize = (amount) => { parseFloat(String(amount)
\*   .replace(/[^\d.-]/g, '')) ...; isNaN(num) ? 0.00 : num.toFixed(2) }
\* parseFloat reads one leading '-' and stops at any later one.
SFP_standardize(amount) ==
  LET clean    == IF amount \in {Undefined, Null} THEN <<>>
                  ELSE SelectSeq(amount, LAMBDA c : c \in Digits \cup {".", "-"})
      negative == clean # <<>> /\ clean[1] = "-"
      body     == IF negative THEN Tail(clean) ELSE clean
      num      == parseUnsigned(SubSeq(body, 1, indexOf(body, "-") - 1))
  IN  IF num.nan THEN 0 ELSE IF negative THEN 0 - num.value ELSE num.value

\* SmartFileProcessor.standardizeDate (the text of SalesUploader's).
SFP_standardizeDate(dateStr) == SalesUploader_standardizeDate(dateStr)

\* One iteration of processSalesData's loop.  A row without TransactionID
\* makes transId.replace throw, which the catch turns into a rejection.
SFP_processSalesRow(row, sourceType) ==
  LET standardizedKey == SFP_standardizePassengerKey(orElse(row.PassengerID, row.PassengerKey))
      flightKey == orElse(row.FlightID, row.FlightKey)
      date      == SFP_standardizeDate(orElse(row.TransactionDate, row.DateKey))
      transId   == optTrim(row.TransactionID)
  IN  IF standardizedKey = Null
        THEN [clean |-> FALSE, row |-> row, reason |-> "Invalid passenger key"]
      ELSE IF flightKey \in {Undefined, <<>>}
        THEN [clean |-> FALSE, row |-> row, reason |-> "Missing flight key"]
      ELSE IF date = Null
        THEN [clean |-> FALSE, row |-> row, reason |-> "Invalid date"]
      ELSE IF transId = Undefined
        THEN [clean |-> FALSE, row |-> row, reason |-> "Processing error: TypeError"]
      ELSE [clean |-> TRUE,
            record |->
              [transaction_id |-> (IF sourceType = "travel_agency" THEN <<"T","A">>
                                   ELSE <<"C","O">>) \o padStart(digitsOf(transId), 6, "0"),
               date_key       |-> digitsOf(date),
               passenger_key  |-> standardizedKey,
               flight_key     |-> flightKey,
               ticket_price   |-> SFP_standardize(row.TicketPrice),
               taxes          |-> SFP_standardize(row.Taxes),
               baggage_fees   |-> SFP_standardize(row.BaggageFees),
               total_amount   |-> SFP_standardize(row.TotalAmount),
               sales_source   |-> sourceType]]

\* SmartFileProcessor.processSalesData
SFP_processSalesData(data, sourceType) ==
  LET outs == [i \in 1..Len(data) |-> SFP_processSalesRow(data[i], sourceType)]
  IN  [cleanData |-> cleanOf(outs), dirtyData |-> dirtyOf(outs)]

----------------------------------------------------------------------------
(* SmartFileProcessor.standardizeCountry and processAirportData.            *)

\* const countryMap = {...}: pairs of key and value.
countryMap ==
  { <<<<"u","s">>,
      <<"U","n","i","t","e","d"," ","S","t","a","t","e","s">>>>,
    <<<<"u","s","a">>,
      <<"U","n","i","t","e","d"," ","S","t","a","t","e","s">>>>,
    <<<<"u","n","i","t","e","d"," ","s","t","a","t","e","s">>,
      <<"U","n","i","t","e","d"," ","S","t","a","t","e","s">>>>,
    <<<<"u",".","s",".","a",".">>,
      <<"U","n","i","t","e","d"," ","S","t","a","t","e","s">>>>,
    <<<<"u",".","s",".">>,
      <<"U","n","i","t","e","d"," ","S","t","a","t","e","s">>>>,
    <<<<"u","k">>,
      <<"U","n","i","t","e","d"," ","K","i","n","g","d","o","m">>>>,
    <<<<"u","n","i","t","e","d"," ","k","i","n","g","d","o","m">>,
      <<"U","n","i","t","e","d"," ","K","i","n","g","d","o","m">>>>,
    <<<<"g","r","e","a","t"," ","b","r","i","t","a","i","n">>,
      <<"U","n","i","t","e","d"," ","K","i","n","g","d","o","m">>>>,
    <<<<"u","a","e">>,
      <<"U","n","i","t","e","d"," ","A","r","a","b"," ","E","m","i","r","a","t","e","s">>>>,
    <<<<"u","n","i","t","e","d"," ","a","r","a","b"," ","e","m","i","r","a","t","e","s">>,
      <<"U","n","i","t","e","d"," ","A","r","a","b"," ","E","m","i","r","a","t","e","s">>>>,
    <<<<"u",".","a",".","e",".">>,
      <<"U","n","i","t","e","d"," ","A","r","a","b"," ","E","m","i","r","a","t","e","s">>>> }

\* The rows of dim_country_hierarchy that .ilike('country_name',
\* `%${normalized}%`) matches.
ilikeMatches(hierarchy, normalized) ==
  {h \in hierarchy : includes(toLowerCase(h.country_name), normalized)}

\* country?.charAt(0).toUpperCase() + country?.slice(1).toLowerCase() || 'Unknown'
titleCased(country) ==
  IF country \in {Undefined, <<>>} THEN Lit.Unknown
  ELSE toUpperCase(<<country[1]>>) \o toLowerCase(Tail(country))

\* SmartFileProcessor.standardizeCountry: the values it can return.  The
\* lookup answers with any one matching row (limit(1) without an order), or
\* with no data when it returns an error.
SFP_standardizeCountry(country, hierarchy) ==
  LET normalized == IF country = Undefined THEN <<>> ELSE trim(toLowerCase(country))
  IN  IF \E e \in countryMap : e[1] = normalized
      THEN {e[2] : e \in {x \in countryMap : x[1] = normalized}}
      ELSE {h.country_name : h \in ilikeMatches(hierarchy, normalized)}
           \cup {titleCased(country)}

\* One iteration of processAirportData's loop: the entries the row can add
\* to cleanData or dirtyData (a store lookup that throws is caught and the
\* row rejected with the error's message, 'fetch failed').
SFP_processAirportRow(hdrs, row, hierarchy) ==
  LET rawKey     == field(hdrs, row, Col.AirportKey)
      airportKey == IF rawKey = Undefined THEN Undefined ELSE toUpperCase(trim(rawKey))
  IN  IF airportKey \in {Undefined, <<>>} \/ Len(airportKey) # 3
      THEN {[clean |-> FALSE, row |-> row, reason |-> "Invalid airport key"]}
      ELSE {[clean |-> TRUE,
             record |->
               [airport_key  |-> airportKey,
                airport_name |-> optTrim(field(hdrs, row, Col.AirportName)),
                city         |-> optTrim(field(hdrs, row, Col.City)),
                country      |-> country,
                country_id   |-> IF \E h \in hierarchy : h.country_name = country
                                 THEN (CHOOSE h \in hierarchy : h.country_name = country).country_id
                                 ELSE Undefined,
                hierarchy_processed |-> TRUE]] :
              country \in SFP_standardizeCountry(field(hdrs, row, Col.Country), hierarchy)}
           \cup {[clean |-> FALSE, row |-> row, reason |-> "fetch failed"] : ex \in StoreExceptions}

\* SmartFileProcessor.processAirportData: the results it can return.
SFP_processAirportData(hdrs, data, hierarchy) ==
  LET choices == {outs \in [1..Len(data) -> UNION {SFP_processAirportRow(hdrs, data[i], hierarchy) :
                                                     i \in 1..Len(data)}] :
                    \A i \in 1..Len(data) : outs[i] \in SFP_processAirportRow(hdrs, data[i], hierarchy)}
  IN  {[cleanData |-> cleanOf(outs), dirtyData |-> dirtyOf(outs)] : outs \in choices}

----------------------------------------------------------------------------
(* scripts/uploadAirports.js: the row handler's operators.                  *)

\* const airportKey = row.AirportKey?.trim().toUpperCase();
airportKeyOf(row) ==
  IF row.AirportKey = Undefined THEN Undefined ELSE toUpperCase(trim(row.AirportKey))

\* !airportKey || airportKey.length !== 3
invalidAirportKey(airportKey) ==
  airportKey \in {Undefined, <<>>} \/ Len(airportKey) # 3

\* uploadAirports.js, standardizeCountry: const countryMap = {...}
Airports_countryMap ==
  {
    <<<<"U","S">>,
      <<"U","n","i","t","e","d"," ","S","t","a","t","e","s">>>>,
    <<<<"U","S","A">>,
      <<"U","n","i","t","e","d"," ","S","t","a","t","e","s">>>>,
    <<<<"U","N","I","T","E","D"," ","S","T","A","T","E","S">>,
      <<"U","n","i","t","e","d"," ","S","t","a","t","e","s">>>>,
    <<<<"U","N","I","T","E","D"," ","S","T","A","T","E","S"," ","O","F"," ","A","M","E","R","I","C","A">>,
      <<"U","n","i","t","e","d"," ","S","t","a","t","e","s">>>>,
    <<<<"U",".","S",".","A",".">>,
      <<"U","n","i","t","e","d"," ","S","t","a","t","e","s">>>>,
    <<<<"U",".","S",".">>,
      <<"U","n","i","t","e","d"," ","S","t","a","t","e","s">>>>,
    <<<<"U","K">>,
      <<"U","n","i","t","e","d"," ","K","i","n","g","d","o","m">>>>,
    <<<<"U","N","I","T","E","D"," ","K","I","N","G","D","O","M">>,
      <<"U","n","i","t","e","d"," ","K","i","n","g","d","o","m">>>>,
    <<<<"G","R","E","A","T"," ","B","R","I","T","A","I","N">>,
      <<"U","n","i","t","e","d"," ","K","i","n","g","d","o","m">>>>,
    <<<<"E","N","G","L","A","N","D">>,
      <<"U","n","i","t","e","d"," ","K","i","n","g","d","o","m">>>>,
    <<<<"U","A","E">>,
      <<"U","n","i","t","e","d"," ","A","r","a","b"," ","E","m","i","r","a","t","e","s">>>>,
    <<<<"U","N","I","T","E","D"," ","A","R","A","B"," ","E","M","I","R","A","T","E","S">>,
      <<"U","n","i","t","e","d"," ","A","r","a","b"," ","E","m","i","r","a","t","e","s">>>>,
    <<<<"J","A","P","A","N">>,
      <<"J","a","p","a","n">>>>,
    <<<<"C","A","N","A","D","A">>,
      <<"C","a","n","a","d","a">>>>,
    <<<<"A","U","S","T","R","A","L","I","A">>,
      <<"A","u","s","t","r","a","l","i","a">>>>,
    <<<<"G","E","R","M","A","N","Y">>,
      <<"G","e","r","m","a","n","y">>>>,
    <<<<"F","R","A","N","C","E">>,
      <<"F","r","a","n","c","e">>>>,
    <<<<"M","E","X","I","C","O">>,
      <<"M","e","x","i","c","o">>>>,
    <<<<"C","H","I","N","A">>,
      <<"C","h","i","n","a">>>>,
    <<<<"B","R","A","Z","I","L">>,
      <<"B","r","a","z","i","l">>>>,
    <<<<"I","N","D","I","A">>,
      <<"I","n","d","i","a">>>> }

\* uploadAirports.js, standardizeCountry
Airports_standardizeCountry(country) ==
  IF country \in {Undefined, <<>>} THEN Lit.Unknown
  ELSE LET countryUpper == trim(toUpperCase(country))
           hits == {e \in Airports_countryMap : e[1] = countryUpper}
       IN  IF hits # {} THEN (CHOOSE e \in hits : TRUE)[2]
           ELSE IF countryUpper = <<>> THEN <<>>
           ELSE <<countryUpper[1]>> \o toLowerCase(Tail(countryUpper))

\* airports.push({ airport_key, airport_name, city, country })
airportOf(row) ==
  [airport_key  |-> airportKeyOf(row),
   airport_name |-> optTrim(row.AirportName),
   city         |-> optTrim(row.City),
   country      |-> Airports_standardizeCountry(row.Country)]

----------------------------------------------------------------------------
(* SmartFileProcessor.processFlightData.  Rows are the objects csv-parser   *)
(* builds.                                                                  *)

\* row.X?.trim().toUpperCase()
optTrimUpper(cell) == IF cell = Undefined THEN Undefined ELSE toUpperCase(trim(cell))

\* One iteration of processFlightData's loop: no store call is made.
SFP_processFlightRow(row) ==
  LET flightKey   == optTrim(row.FlightKey)
      origin      == optTrimUpper(row.OriginAirportKey)
      destination == optTrimUpper(row.DestinationAirportKey)
  IN  IF flightKey \in {Undefined, <<>>} \/ origin \in {Undefined, <<>>}
         \/ destination \in {Undefined, <<>>}
        THEN [clean |-> FALSE, row |-> row, reason |-> "Missing required flight data"]
      ELSE [clean |-> TRUE,
            record |-> [flight_key |-> flightKey,
                        origin_airport_key |-> origin,
                        destination_airport_key |-> destination,
                        aircraft_type |-> optTrim(row.AircraftType)]]

\* SmartFileProcessor.processFlightData
SFP_processFlightData(data) ==
  LET outcomes == [i \in 1..Len(data) |-> SFP_processFlightRow(data[i])]
  IN  [cleanData |-> cleanOf(outcomes), dirtyData |-> dirtyOf(outcomes)]

----------------------------------------------------------------------------
(* scripts/uploadFlights.js: getOrCreateAirport.                            *)

\* The placeholder row of getOrCreateAirport.
placeholderOf(code) ==
  [airport_key  |-> code,
   airport_name |-> code \o <<" ","A","i","r","p","o","r","t">>,
   city         |-> Lit.Unknown,
   country      |-> Lit.Unknown]

\* What .from('dim_airport').select('airport_key').eq('airport_key', code)
\* .single() can answer as data: TRUE for a row, which takes a row with that
\* key; FALSE for null, which is the answer without such a row and the
\* answer of a failed lookup.
singleAirport(table, code) ==
  {FALSE} \cup (IF \E a \in table : a.airport_key = code THEN {TRUE} ELSE {})

\* getOrCreateAirport that adds the code to the cache when the upsert of the
\* placeholder returned an error.
getOrCreateAirport_cachesOnError(cache, table, code) ==
  IF code \in cache THEN {[cache |-> cache, table |-> table, ok |-> TRUE]}
  ELSE {[cache |-> cache \cup {code}, table |-> table, ok |-> TRUE] :
           airport \in singleAirport(table, code) \cap {TRUE}}
       \cup (IF FALSE \in singleAirport(table, code)
             THEN {[cache |-> cache \cup {code},
                    table |-> upserted(table, <<placeholderOf(code)>>, "airport_key"),
                    ok    |-> TRUE],
                   [cache |-> cache \cup {code}, table |-> table, ok |-> FALSE]}
             ELSE {})

\* getOrCreateAirport(code) on the cache and the dim_airport table as given:
\* the outcomes it can have, each with the cache and the table it leaves and
\* the value it returns.
getOrCreateAirport(cache, table, code) ==
  IF code \in cache THEN {[cache |-> cache, table |-> table, ok |-> TRUE]}
  ELSE {[cache |-> cache \cup {code}, table |-> table, ok |-> TRUE] :
           airport \in singleAirport(table, code) \cap {TRUE}}
       \cup (IF FALSE \in singleAirport(table, code)
             THEN {[cache |-> cache \cup {code},
                    table |-> upserted(table, <<placeholderOf(code)>>, "airport_key"),
                    ok    |-> TRUE],
                   [cache |-> cache, table |-> table, ok |-> FALSE]}
             ELSE {})

----------------------------------------------------------------------------
(* Bounds of the model.                                                    *)

\* Header lists are built from at most MaxGroups column groups.
MaxGroups == 3

\* Passenger key strings have at most MaxKeyLen characters.
MaxKeyLen == 4

\* An uploaded file has at most MaxFileRows data rows.
MaxFileRows == 2

\* datasets/passengers.csv has at most MaxPassengerRows rows.
MaxPassengerRows == 3

\* const batchSize = 20 of uploadPassengers, scaled down so that a run of
\* MaxPassengerRows rows has a full and a partial batch.
passengerBatchSize == 2

\* datasets/travel_agency_sales_001.csv has at most MaxTravelRows rows.
MaxTravelRows == 2

\* const batchSize = 100 of uploadAllSales, scaled down likewise.
salesBatchSize == 2

\* const dirtyBatchSize = 100 of uploadAllSales, scaled down likewise.
dirtyBatchSize == 2

\* The longest raw amount.
MaxAmountLen == 4

\* uploadFlights: const batchSize = 50, scaled down.
flightBatchSize == 1

----------------------------------------------------------------------------
(* State.                                                                  *)

VARIABLES
  headers,      \* detectFileType: the header list given to the classifier
  fileType,     \* detectFileType: its result ("none" before the call)
  matchedBy,    \* detectFileType: "signature" (loop return) or "fuzzy" (fallback)
  inputKey,     \* standardizePassengerKey: the raw key
  keyOut,       \* its result, per implementation
  keyAgain,     \* the result of standardizing keyOut again, per implementation
  pcK,          \* "input", "standardized", "restandardized"
  fHeaders,     \* processFile: the header line of the file on disk
  fRows,        \* processFile: the data rows of the file on disk, cells in header order
  pcF,          \* processFile: position ("start", "headers", "detected", "read",
                \*   "processed", "upserted", "returned")
  hdrs,         \* processFile: const headers
  fType,        \* processFile: const fileType
  data,         \* processFile: const data (the rows readCSVData returned)
  cleanData,    \* processFile: result.cleanData
  dirtyData,    \* processFile: result.dirtyData
  ret,          \* processFile: the returned object
  store,        \* the remote store: table name -> set of rows
  dirty_data,   \* the remote dirty_data table, in insertion order
  script,       \* the script that runs: "uploadPassengers", "uploadAllSales" ("idle": none)
  pc,           \* its position: "rows" or "file", "upload", "single", "dirty", "done",
                \*   "fatal"
  rawRows,      \* uploadPassengers: const rawRows
  rowIdx,       \* uploadPassengers: the row loop's i + 1
  passengerMap, \* uploadPassengers: const passengerMap, entries in insertion order
  duplicates,   \* uploadPassengers: const duplicates (row numbers)
  invalidKeys,  \* uploadPassengers: const invalidKeys (row numbers)
  uniquePassengers,  \* uploadPassengers: const uniquePassengers
  failedPassengers,  \* uploadPassengers: const failedPassengers
  batchStart,   \* the batch loop's i (0-based start of the current batch)
  sIdx,         \* the individual loop's position in the batch (1-based)
  uploaded,     \* let uploaded
  errors,       \* let errors
  alreadyExist, \* uploadPassengers: let alreadyExist
  counted,      \* per clean record, the counter that counted it in this run:
                \*   "none", "uploaded", "exists", "error"
  runNo,        \* 1: first run of the load phase, 2: second run on the same batch
  firstRunUploaded,  \* the records (positions) the first run counted as uploaded
  travelFile,   \* uploadAllSales: the rows of datasets/travel_agency_sales_001.csv
  corporateFile,     \* uploadAllSales: the rows of datasets/corporate_sales.csv
  sourceType,   \* processSalesFile: sourceType of the file being read
  rowNo,        \* processSalesFile: the next 'data' event (1-based)
  sales,        \* processSalesFile: const sales
  dirtyRows,    \* processSalesFile: const dirtyRows
  seenTransactionIds,  \* processSalesFile: const seenTransactionIds
  travelSales,  \* uploadAllSales: travelSales
  travelDirty,  \* uploadAllSales: travelDirty
  corporateDirty,    \* uploadAllSales: corporateDirty
  finalSales,   \* uploadAllSales: const finalSales
  crossFileDuplicates, \* uploadAllSales: const crossFileDuplicates
  allDirty,     \* uploadAllSales: const allDirty
  skippedDuplicates,   \* uploadAllSales: let skippedDuplicates
  dirtyStart,   \* uploadAllSales: the dirty-save loop's i
  backupFile,   \* dirty_sales_backup.json: one line per appended batch
  airports,     \* uploadAirports: const airports
  airportSet,   \* uploadAirports: const airportSet
  successCount, \* uploadAirports: let successCount
  errorCount,   \* uploadAirports: let errorCount
  amount,       \* amount standardization: the raw amount
  amountOut,    \* per implementation, the set holding the value it returned (in
                \*   hundredths), empty before the call
  airportCache, \* uploadFlights.js: const airportCache
  flights,      \* uploadFlights: const flights
  skipped,      \* uploadFlights: let skipped
  originOk,     \* uploadFlights: const originOk of the row being processed
  destOk,       \* uploadFlights: const destOk of the row being processed
  streamEvents, \* readCSVHeaders: the events the stream has still to emit
  promise       \* readCSVHeaders: the promise it returned

detectVars == <<headers, fileType, matchedBy>>

keyVars == <<inputKey, keyOut, keyAgain, pcK>>

fileVars == <<fHeaders, fRows, pcF, hdrs, fType, data, cleanData, dirtyData, ret>>

storeVars == <<store, dirty_data>>

paxVars == <<rawRows, rowIdx, passengerMap, duplicates, invalidKeys, uniquePassengers,
             failedPassengers>>

loadVars == <<script, pc, batchStart, sIdx, uploaded, errors, alreadyExist, counted, runNo,
              firstRunUploaded>>

salesVars == <<travelFile, corporateFile, sourceType, rowNo, sales, dirtyRows,
               seenTransactionIds, travelSales, travelDirty, corporateDirty, finalSales,
               crossFileDuplicates, allDirty, skippedDuplicates, dirtyStart, backupFile>>

airportVars == <<airports, airportSet, successCount, errorCount>>

amountVars == <<amount, amountOut>>

flightVars == <<airportCache, flights, skipped, originOk, destOk>>

streamVars == <<streamEvents, promise>>

vars == <<detectVars, keyVars, fileVars, storeVars, paxVars, loadVars, salesVars, airportVars,
          amountVars, flightVars, streamVars>>

\* What each group of runs leaves alone.
notDetectVars == <<keyVars, fileVars, storeVars, paxVars, loadVars, salesVars,
    airportVars, amountVars, flightVars, streamVars>>

notKeyVars == <<detectVars, fileVars, storeVars, paxVars, loadVars, salesVars,
    airportVars, amountVars, flightVars, streamVars>>

----------------------------------------------------------------------------
(* Classifier runs: one call of detectFileType on a header list.           *)

\* The column groups header lists are assembled from: the six signatures'
\* required columns, an amount column, the optional passenger columns, and
\* a column no signature or fragment knows.
HeaderGroups ==
  << <<Col.PassengerKey, Col.FullName>>,
     <<Col.AirportKey, Col.AirportName, Col.City, Col.Country>>,
     <<Col.AirlineKey, Col.AirlineName>>,
     <<Col.FlightKey, Col.OriginAirportKey, Col.DestinationAirportKey>>,
     <<Col.TransactionID, Col.TransactionDate, Col.PassengerID, Col.FlightID>>,
     <<Col.TransactionID, Col.DateKey, Col.PassengerKey, Col.FlightKey>>,
     <<Col.TicketPrice>>,
     <<Col.Email, Col.LoyaltyStatus>>,
     <<Col.Notes>> >>

\* The ways a file may spell its headers.
Casings == {"declared", "lower", "upper", "padded", "lowerPadded"}

spell(casing, h) ==
  CASE casing = "declared"    -> h
    [] casing = "lower"       -> toLowerCase(h)
    [] casing = "upper"       -> toUpperCase(h)
    [] casing = "padded"      -> <<" ">> \o h \o <<" ">>
    [] casing = "lowerPadded" -> <<" ">> \o toLowerCase(h)

\* The groups of G, in the order of HeaderGroups, as one header list.
RECURSIVE headerList(_, _)
headerList(G, i) ==
  IF i > Len(HeaderGroups) THEN <<>>
  ELSE (IF i \in G THEN HeaderGroups[i] ELSE <<>>) \o headerList(G, i + 1)

HeaderLists ==
  { [i \in 1..Len(headerList(G, 1)) |-> spell(c, headerList(G, 1)[i])] :
      G \in {H \in SUBSET (1..Len(HeaderGroups)) : Cardinality(H) <= MaxGroups},
      c \in Casings }

DetectIdle == headers = <<>> /\ fileType = "none" /\ matchedBy = "none"

KeyIdle == inputKey = Undefined /\ keyOut = <<>> /\ keyAgain = <<>> /\ pcK = "idle"

FileIdle ==
  /\ fHeaders = <<>> /\ fRows = <<>> /\ pcF = "idle" /\ hdrs = <<>> /\ fType = "none"
  /\ data = <<>> /\ cleanData = <<>> /\ dirtyData = <<>> /\ ret = [success |-> FALSE]

TableNames == {"dim_passenger", "dim_airport", "dim_airline", "dim_flight", "fact_sales"}

EmptyStore == [t \in TableNames |-> {}]

StoreIdle == store = EmptyStore /\ dirty_data = <<>>

PaxIdle ==
  /\ rawRows = <<>> /\ rowIdx = 1 /\ passengerMap = <<>> /\ duplicates = <<>>
  /\ invalidKeys = <<>> /\ uniquePassengers = <<>> /\ failedPassengers = <<>>

LoadIdle ==
  /\ script = "idle" /\ pc = "idle" /\ batchStart = 0 /\ sIdx = 1 /\ uploaded = 0 /\ errors = 0
  /\ alreadyExist = 0 /\ counted = <<>> /\ runNo = 1 /\ firstRunUploaded = {}

AirportIdle == airports = <<>> /\ airportSet = {} /\ successCount = 0 /\ errorCount = 0

FlightIdle ==
  /\ airportCache = {} /\ flights = <<>> /\ skipped = 0 /\ originOk = FALSE /\ destOk = FALSE

StreamIdle ==
  /\ streamEvents = [emitted |-> <<>>, toEmit |-> <<>>]
  /\ promise = [state |-> "pending", value |-> <<>>]

AmountIdle ==
  amount = Undefined /\ amountOut = [SalesUploader |-> {}, SmartFileProcessor |-> {}]

SalesIdle ==
  /\ travelFile = <<>> /\ corporateFile = <<>> /\ sourceType = "none" /\ rowNo = 1
  /\ sales = <<>> /\ dirtyRows = <<>> /\ seenTransactionIds = {}
  /\ travelSales = <<>> /\ travelDirty = <<>> /\ corporateDirty = <<>>
  /\ finalSales = <<>> /\ crossFileDuplicates = <<>> /\ allDirty = <<>>
  /\ skippedDuplicates = 0 /\ dirtyStart = 0 /\ backupFile = <<>>

InitDetect ==
  /\ headers \in HeaderLists
  /\ fileType = "none"
  /\ matchedBy = "none"
  /\ KeyIdle /\ FileIdle /\ StoreIdle /\ PaxIdle /\ LoadIdle /\ SalesIdle
  /\ AirportIdle /\ AmountIdle /\ FlightIdle /\ StreamIdle

\* const fileType = this.detectFileType(headers);
DetectFileType ==
  /\ fileType = "none"
  /\ fileType' = detectFileType(headers)
  /\ matchedBy' = IF signatureLoop(1, headers) # "none" THEN "signature" ELSE "fuzzy"
  /\ UNCHANGED <<headers, notDetectVars>>

NextDetect == DetectFileType

SpecDetect == InitDetect /\ [][NextDetect]_vars

----------------------------------------------------------------------------
(* Key runs: each implementation standardizes a raw key, then its own      *)
(* result.                                                                 *)

KeyChars == {"P", "p", "0", "1", " ", "A"}

RECURSIVE StringsUpTo(_, _)
StringsUpTo(chars, n) ==
  IF n = 0 THEN {<<>>}
  ELSE LET shorter == StringsUpTo(chars, n - 1)
       IN  shorter \cup {Append(s, c) : s \in shorter, c \in chars}

RawKeys == StringsUpTo(KeyChars, MaxKeyLen) \cup {Undefined}

Implementations == {"SmartFileProcessor", "SalesUploader", "uploadPassengers"}

standardizeBy(impl, key) ==
  CASE impl = "SmartFileProcessor" -> SFP_standardizePassengerKey(key)
    [] impl = "SalesUploader"      -> SalesUploader_standardizePassengerKey(key)
    [] impl = "uploadPassengers"   -> standardizePassengerKey(key)

InitKey ==
  /\ inputKey \in RawKeys
  /\ keyOut = <<>>
  /\ keyAgain = <<>>
  /\ pcK = "input"
  /\ DetectIdle /\ FileIdle /\ StoreIdle /\ PaxIdle /\ LoadIdle /\ SalesIdle
  /\ AirportIdle /\ AmountIdle /\ FlightIdle /\ StreamIdle

StandardizeKey ==
  /\ pcK = "input"
  /\ keyOut' = [impl \in Implementations |-> standardizeBy(impl, inputKey)]
  /\ pcK' = "standardized"
  /\ UNCHANGED <<inputKey, keyAgain, notKeyVars>>

RestandardizeKey ==
  /\ pcK = "standardized"
  /\ keyAgain' = [impl \in Implementations |-> standardizeBy(impl, keyOut[impl])]
  /\ pcK' = "restandardized"
  /\ UNCHANGED <<inputKey, keyOut, notKeyVars>>

NextKey == StandardizeKey \/ RestandardizeKey

SpecKey == InitKey /\ [][NextKey]_vars

----------------------------------------------------------------------------
(* processFile runs: SmartFileProcessor.processFile on one uploaded file.  *)

notFileVars == <<detectVars, keyVars, paxVars, loadVars, salesVars,
    airportVars, amountVars, flightVars, streamVars>>

SeqsUpTo(S, n) == UNION {[1..k -> S] : k \in 0..n}

PassengerHeaders == <<Col.PassengerKey, Col.FullName, Col.Email, Col.LoyaltyStatus>>

PassengerRows ==
  { <<k, n, e, l>> : k \in {Lit.P1, Lit.P123}, n \in {Lit.JaneDoe, Lit.Cher},
                     e \in {<<>>, Lit.JXio}, l \in {Lit.gold, <<>>} }

AirlineHeaders == <<Col.AirlineKey, Col.AirlineName>>

AirlineRows == { <<k, Lit.AirA>> : k \in {Lit.aa, <<" ">>} }

AirportHeaders == <<Col.AirportKey, Col.AirportName, Col.City, Col.Country>>

\* Airport rows: the keys "ny " and "jfk", without a country and with "usa".
AirportRows ==
  { <<k, <<"A","p","t">>, <<"C","i","t","y">>, c>> :
      k \in {<<"n","y"," ">>, <<"j","f","k">>}, c \in {<<>>, <<"u","s","a">>} }

\* What dim_country_hierarchy can hold when it is read.
Hierarchies ==
  { {}, {[country_id |-> 1, country_name |-> <<"J","a","p","a","n">>]} }

\* The uploaded files: passenger files with the declared and with
\* all-lowercase headers, airline files, airport files, and files no
\* signature knows.
Files ==
  {[headers |-> PassengerHeaders, rows |-> r] : r \in SeqsUpTo(PassengerRows, MaxFileRows)}
  \cup {[headers |-> normalizedHeaders(PassengerHeaders), rows |-> r] :
          r \in SeqsUpTo(PassengerRows, MaxFileRows)}
  \cup {[headers |-> AirlineHeaders, rows |-> r] : r \in SeqsUpTo(AirlineRows, MaxFileRows)}
  \cup {[headers |-> AirportHeaders, rows |-> r] : r \in SeqsUpTo(AirportRows, MaxFileRows)}
  \cup {[headers |-> <<Col.Notes>>, rows |-> r] : r \in SeqsUpTo({<<Lit.x>>}, MaxFileRows)}

InitFile ==
  /\ \E f \in Files : fHeaders = f.headers /\ fRows = f.rows
  /\ pcF = "start" /\ hdrs = <<>> /\ fType = "none"
  /\ data = <<>> /\ cleanData = <<>> /\ dirtyData = <<>> /\ ret = [success |-> FALSE]
  /\ DetectIdle /\ KeyIdle /\ StoreIdle /\ PaxIdle /\ LoadIdle /\ SalesIdle
  /\ AirportIdle /\ AmountIdle /\ FlightIdle /\ StreamIdle

\* catch (error) { return { success: false, ... } }
Failed ==
  /\ ret' = [success |-> FALSE]
  /\ pcF' = "returned"

\* const headers = await this.readCSVHeaders(filePath);
ReadCSVHeaders ==
  /\ pcF = "start"
  /\ hdrs' = fHeaders
  /\ pcF' = "headers"
  /\ UNCHANGED <<fHeaders, fRows, fType, data, cleanData, dirtyData, ret, storeVars, notFileVars>>

\* The stream emits 'error' (the file cannot be read): the promise rejects.
ReadCSVHeadersFails ==
  /\ pcF = "start"
  /\ Failed
  /\ UNCHANGED <<fHeaders, fRows, hdrs, fType, data, cleanData, dirtyData, storeVars, notFileVars>>

\* const fileType = this.detectFileType(headers); if unknown, throw.
DetectType ==
  /\ pcF = "headers"
  /\ fType' = detectFileType(hdrs)
  /\ IF unknownIsFatal(detectFileType(hdrs))
     THEN Failed
     ELSE pcF' = "detected" /\ UNCHANGED ret
  /\ UNCHANGED <<fHeaders, fRows, hdrs, data, cleanData, dirtyData, storeVars, notFileVars>>

\* const data = await this.readCSVData(filePath);
ReadCSVData ==
  /\ pcF = "detected"
  /\ data' = fRows
  /\ pcF' = "read"
  /\ UNCHANGED <<fHeaders, fRows, hdrs, fType, cleanData, dirtyData, ret, storeVars, notFileVars>>

ReadCSVDataFails ==
  /\ pcF = "detected"
  /\ Failed
  /\ UNCHANGED <<fHeaders, fRows, hdrs, fType, data, cleanData, dirtyData, storeVars, notFileVars>>

\* switch (fileType) { case ...: result = await this.process...Data(data) }
ProcessData ==
  /\ pcF = "read"
  /\ CASE fType = "passengers" ->
            /\ cleanData' = SFP_processPassengerData(hdrs, data).cleanData
            /\ dirtyData' = SFP_processPassengerData(hdrs, data).dirtyData
            /\ pcF' = "processed" /\ UNCHANGED ret
       [] fType = "airlines" ->
            /\ cleanData' = SFP_processAirlineData(hdrs, data).cleanData
            /\ dirtyData' = SFP_processAirlineData(hdrs, data).dirtyData
            /\ pcF' = "processed" /\ UNCHANGED ret
       [] fType = "airports" ->
            /\ \E hierarchy \in Hierarchies :
                 \E result \in SFP_processAirportData(hdrs, data, hierarchy) :
                    cleanData' = result.cleanData /\ dirtyData' = result.dirtyData
            /\ pcF' = "processed" /\ UNCHANGED ret
       [] fType = "unknown" ->      \* default: throw new Error('No processor...')
            /\ Failed
            /\ UNCHANGED <<cleanData, dirtyData>>
  /\ UNCHANGED <<fHeaders, fRows, hdrs, fType, data, storeVars, notFileVars>>

\* if (result.cleanData.length > 0) upsert into the target table; no error.
UpsertClean ==
  /\ pcF = "processed"
  /\ store' =
       IF cleanData = <<>> THEN store
       ELSE LET t == signatureOf(fType).targetTable
            IN  [store EXCEPT ![t] = upserted(store[t], cleanData, getConflictColumn(t))]
  /\ pcF' = "upserted"
  /\ UNCHANGED <<fHeaders, fRows, hdrs, fType, data, cleanData, dirtyData, ret,
                 dirty_data, notFileVars>>

\* The upsert returns an error: if (error) throw error;
UpsertCleanFails ==
  /\ pcF = "processed"
  /\ cleanData # <<>>
  /\ Failed
  /\ UNCHANGED <<fHeaders, fRows, hdrs, fType, data, cleanData, dirtyData, storeVars, notFileVars>>

\* return { success: true, fileType, totalRecords, cleanRecords, dirtyRecords }
Succeeded ==
  /\ ret' = [success |-> TRUE, fileType |-> fType, totalRecords |-> Len(data),
             cleanRecords |-> Len(cleanData), dirtyRecords |-> Len(dirtyData)]
  /\ pcF' = "returned"

\* if (result.dirtyData.length > 0) await this.saveDirtyData(...); return.
SaveDirtyData ==
  /\ pcF = "upserted"
  /\ dirty_data' = dirty_data \o dirtyRecords(dirtyData, fType)
  /\ Succeeded
  /\ UNCHANGED <<fHeaders, fRows, hdrs, fType, data, cleanData, dirtyData, store, notFileVars>>

\* The insert into dirty_data returns an error, which saveDirtyData never
\* reads: nothing is stored and processFile returns as usual.
SaveDirtyDataFails ==
  /\ pcF = "upserted"
  /\ dirtyData # <<>>
  /\ Succeeded
  /\ UNCHANGED <<fHeaders, fRows, hdrs, fType, data, cleanData, dirtyData, storeVars, notFileVars>>

NextFile ==
  \/ ReadCSVHeaders \/ ReadCSVHeadersFails \/ DetectType
  \/ ReadCSVData \/ ReadCSVDataFails \/ ProcessData
  \/ UpsertClean \/ UpsertCleanFails \/ SaveDirtyData \/ SaveDirtyDataFails

SpecFile == InitFile /\ [][NextFile]_vars

----------------------------------------------------------------------------
(* Script runs: scripts/uploadPassengers.js.                               *)

notPaxVars == <<detectVars, keyVars, fileVars, salesVars,
    airportVars, amountVars, flightVars, streamVars>>

\* The rows of datasets/passengers.csv: two raw keys that standardize to
\* P123 ("P123", "0123", under different names), one that standardizes to
\* P456, and one that is rejected ("P1").
PassengerCsvRows ==
  { [PassengerKey |-> Lit.P123,  FullName |-> Lit.Cher,    Email |-> <<>>, LoyaltyStatus |-> Lit.gold],
    [PassengerKey |-> Lit.k0123, FullName |-> Lit.JaneDoe, Email |-> <<>>, LoyaltyStatus |-> Lit.gold],
    [PassengerKey |-> Lit.P456,  FullName |-> Lit.Cher,    Email |-> <<>>, LoyaltyStatus |-> <<>>],
    [PassengerKey |-> Lit.P1,    FullName |-> Lit.JaneDoe, Email |-> <<>>, LoyaltyStatus |-> <<>>] }

InitPassengers ==
  /\ script = "uploadPassengers" /\ pc = "rows"
  /\ rawRows \in SeqsUpTo(PassengerCsvRows, MaxPassengerRows)
  /\ rowIdx = 1 /\ passengerMap = <<>> /\ duplicates = <<>> /\ invalidKeys = <<>>
  /\ uniquePassengers = <<>> /\ failedPassengers = <<>>
  /\ batchStart = 0 /\ sIdx = 1 /\ uploaded = 0 /\ errors = 0 /\ alreadyExist = 0
  /\ counted = <<>> /\ runNo = 1 /\ firstRunUploaded = {}
  /\ store = EmptyStore
  /\ dirty_data = <<>>
  /\ DetectIdle /\ KeyIdle /\ FileIdle /\ SalesIdle /\ AirportIdle /\ AmountIdle /\ FlightIdle /\ StreamIdle

\* const originalKey = row.PassengerKey?.trim();
originalKey(row) == optTrim(row.PassengerKey)

\* Step 2, a row whose key standardizes to null: invalidKeys.push, then
\* await saveToDirtyTable(row, ...).
P_RowInvalid ==
  /\ script = "uploadPassengers" /\ pc = "rows" /\ rowIdx <= Len(rawRows)
  /\ standardizePassengerKey(originalKey(rawRows[rowIdx])) = Null
  /\ invalidKeys' = Append(invalidKeys, rowIdx)
  /\ \E saved \in BOOLEAN :
       dirty_data' = saveToDirtyTable(dirty_data, rawRows[rowIdx],
                        reason("Invalid passenger key format: ", originalKey(rawRows[rowIdx])),
                        saved)
  /\ rowIdx' = rowIdx + 1
  /\ UNCHANGED <<rawRows, passengerMap, duplicates, uniquePassengers, failedPassengers,
                 store, loadVars, notPaxVars>>

\* Step 2, a row whose standardized key is in passengerMap already.
P_RowDuplicate ==
  /\ script = "uploadPassengers" /\ pc = "rows" /\ rowIdx <= Len(rawRows)
  /\ LET key == standardizePassengerKey(originalKey(rawRows[rowIdx]))
     IN  /\ key # Null
         /\ mapHas(passengerMap, key)
         /\ \E saved \in BOOLEAN :
              dirty_data' = saveToDirtyTable(dirty_data, rawRows[rowIdx],
                               reason("Duplicate passenger key: ", key), saved)
  /\ duplicates' = Append(duplicates, rowIdx)
  /\ rowIdx' = rowIdx + 1
  /\ UNCHANGED <<rawRows, passengerMap, invalidKeys, uniquePassengers, failedPassengers,
                 store, loadVars, notPaxVars>>

\* Step 2, a row with a new key: passengerMap.set(standardizedKey, {...}).
P_RowUnique ==
  /\ script = "uploadPassengers" /\ pc = "rows" /\ rowIdx <= Len(rawRows)
  /\ LET key == standardizePassengerKey(originalKey(rawRows[rowIdx]))
     IN  /\ key # Null
         /\ ~mapHas(passengerMap, key)
         /\ passengerMap' = Append(passengerMap,
                               [key |-> key, rowNumber |-> rowIdx,
                                data |-> passengerData(key, rawRows[rowIdx])])
  /\ rowIdx' = rowIdx + 1
  /\ UNCHANGED <<rawRows, duplicates, invalidKeys, uniquePassengers, failedPassengers,
                 storeVars, loadVars, notPaxVars>>

\* The counters and the batch loop at the start of Step 3.
StartLoad(n) ==
  /\ batchStart' = 0 /\ sIdx' = 1 /\ uploaded' = 0 /\ errors' = 0 /\ alreadyExist' = 0
  /\ counted' = [k \in 1..n |-> "none"]
  /\ failedPassengers' = <<>>
  /\ pc' = IF n > 0 THEN "upload" ELSE "done"

\* const uniquePassengers = Array.from(passengerMap.values()).map(item => item.data);
\* Step 3 starts if there is any.
P_StartUpload ==
  /\ script = "uploadPassengers" /\ pc = "rows" /\ rowIdx > Len(rawRows)
  /\ uniquePassengers' = [k \in 1..Len(passengerMap) |-> passengerMap[k].data]
  /\ StartLoad(Len(passengerMap))
  /\ UNCHANGED <<rawRows, rowIdx, passengerMap, duplicates, invalidKeys,
                 storeVars, script, runNo, firstRunUploaded, notPaxVars>>

\* The positions in the clean list of the batch that starts at i.
batchRange(n, size) == (batchStart + 1)..(IF batchStart + size < n THEN batchStart + size ELSE n)

\* uniquePassengers.slice(i, i + batchSize)
passengerBatch ==
  SubSeq(uniquePassengers, batchStart + 1,
         IF batchStart + passengerBatchSize < Len(uniquePassengers)
         THEN batchStart + passengerBatchSize ELSE Len(uniquePassengers))

\* i += batchSize, and the loop test.
NextBatch(n, size) ==
  /\ batchStart' = batchStart + size
  /\ sIdx' = 1
  /\ pc' = IF batchStart + size < n THEN "upload" ELSE "done"

\* counted with every record of the current batch marked.
markBatch(n, size, as) ==
  [k \in 1..n |-> IF k \in batchRange(n, size) THEN as ELSE counted[k]]

\* The batch insert succeeds: uploaded += batch.length.
P_BatchInserted ==
  /\ script = "uploadPassengers" /\ pc = "upload"
  /\ insertable(store["dim_passenger"], passengerBatch, "passenger_key")
  /\ store' = [store EXCEPT !["dim_passenger"] = inserted(@, passengerBatch)]
  /\ uploaded' = uploaded + Len(passengerBatch)
  /\ counted' = markBatch(Len(uniquePassengers), passengerBatchSize, "uploaded")
  /\ NextBatch(Len(uniquePassengers), passengerBatchSize)
  /\ UNCHANGED <<paxVars, dirty_data, script, errors, alreadyExist, runNo,
                 firstRunUploaded, notPaxVars>>

\* The batch insert returns a duplicate error: "inserting individually".
P_BatchDuplicateError ==
  /\ script = "uploadPassengers" /\ pc = "upload"
  /\ \E error \in StoreErrors : isDuplicateError(error)
  /\ pc' = "single" /\ sIdx' = 1
  /\ UNCHANGED <<paxVars, storeVars, script, batchStart, uploaded, errors, alreadyExist, counted,
                 runNo, firstRunUploaded, notPaxVars>>

\* dirty_data after saveToDirtyTable was awaited for each record of recs
\* in turn; saved[k] tells whether the k-th insert succeeded.
RECURSIVE saveAllToDirtyTable(_, _, _, _, _)
saveAllToDirtyTable(table, recs, errorReason, saved, k) ==
  IF k > Len(recs) THEN table
  ELSE saveAllToDirtyTable(saveToDirtyTable(table, recs[k], errorReason, saved[k]),
                           recs, errorReason, saved, k + 1)

\* The batch insert returns another error: the whole batch goes to the
\* dirty table and errors += batch.length.
P_BatchOtherError ==
  /\ script = "uploadPassengers" /\ pc = "upload"
  /\ \E error \in StoreErrors :
       /\ ~isDuplicateError(error)
       /\ \E saved \in [1..Len(passengerBatch) -> BOOLEAN] :
            dirty_data' = saveAllToDirtyTable(dirty_data, passengerBatch,
                             reason("Batch upload failed: ", error.message), saved, 1)
  /\ failedPassengers' = failedPassengers \o
                         [k \in 1..Len(passengerBatch) |-> passengerBatch[k].passenger_key]
  /\ errors' = errors + Len(passengerBatch)
  /\ counted' = markBatch(Len(uniquePassengers), passengerBatchSize, "error")
  /\ NextBatch(Len(uniquePassengers), passengerBatchSize)
  /\ UNCHANGED <<rawRows, rowIdx, passengerMap, duplicates, invalidKeys, uniquePassengers,
                 store, script, uploaded, alreadyExist, runNo, firstRunUploaded, notPaxVars>>

\* The batch insert throws: catch (batchError) { errors += batch.length; }
P_BatchThrows ==
  /\ script = "uploadPassengers" /\ pc = "upload"
  /\ \E ex \in StoreExceptions : TRUE
  /\ errors' = errors + Len(passengerBatch)
  /\ counted' = markBatch(Len(uniquePassengers), passengerBatchSize, "error")
  /\ NextBatch(Len(uniquePassengers), passengerBatchSize)
  /\ UNCHANGED <<paxVars, storeVars, script, uploaded, alreadyExist, runNo,
                 firstRunUploaded, notPaxVars>>

\* The end of one iteration of "for (const passenger of batch)".
NextSingle(n, size, batchLen) ==
  IF sIdx < batchLen
  THEN sIdx' = sIdx + 1 /\ UNCHANGED <<pc, batchStart>>
  ELSE NextBatch(n, size)

\* The individual insert succeeds: uploaded++.
P_SingleInserted ==
  /\ script = "uploadPassengers" /\ pc = "single"
  /\ insertable(store["dim_passenger"], <<passengerBatch[sIdx]>>, "passenger_key")
  /\ store' = [store EXCEPT !["dim_passenger"] = inserted(@, <<passengerBatch[sIdx]>>)]
  /\ uploaded' = uploaded + 1
  /\ counted' = [counted EXCEPT ![batchStart + sIdx] = "uploaded"]
  /\ NextSingle(Len(uniquePassengers), passengerBatchSize, Len(passengerBatch))
  /\ UNCHANGED <<paxVars, dirty_data, script, errors, alreadyExist, runNo,
                 firstRunUploaded, notPaxVars>>

\* The individual insert returns a duplicate error: alreadyExist++.
P_SingleDuplicateError ==
  /\ script = "uploadPassengers" /\ pc = "single"
  /\ \E error \in StoreErrors : isDuplicateError(error)
  /\ alreadyExist' = alreadyExist + 1
  /\ counted' = [counted EXCEPT ![batchStart + sIdx] = "exists"]
  /\ NextSingle(Len(uniquePassengers), passengerBatchSize, Len(passengerBatch))
  /\ UNCHANGED <<paxVars, storeVars, script, uploaded, errors, runNo,
                 firstRunUploaded, notPaxVars>>

\* The individual insert returns another error: saveToDirtyTable, errors++.
P_SingleOtherError ==
  /\ script = "uploadPassengers" /\ pc = "single"
  /\ \E error \in StoreErrors, saved \in BOOLEAN :
       /\ ~isDuplicateError(error)
       /\ dirty_data' = saveToDirtyTable(dirty_data, passengerBatch[sIdx],
                           reason("Upload failed: ", error.message), saved)
  /\ failedPassengers' = Append(failedPassengers, passengerBatch[sIdx].passenger_key)
  /\ errors' = errors + 1
  /\ counted' = [counted EXCEPT ![batchStart + sIdx] = "error"]
  /\ NextSingle(Len(uniquePassengers), passengerBatchSize, Len(passengerBatch))
  /\ UNCHANGED <<rawRows, rowIdx, passengerMap, duplicates, invalidKeys, uniquePassengers,
                 store, script, uploaded, alreadyExist, runNo, firstRunUploaded, notPaxVars>>

\* The individual insert throws: catch (singleErr) { saveToDirtyTable; errors++ }
P_SingleThrows ==
  /\ script = "uploadPassengers" /\ pc = "single"
  /\ \E ex \in StoreExceptions, saved \in BOOLEAN :
       dirty_data' = saveToDirtyTable(dirty_data, passengerBatch[sIdx],
                        reason("Upload error: ", ex.message), saved)
  /\ failedPassengers' = Append(failedPassengers, passengerBatch[sIdx].passenger_key)
  /\ errors' = errors + 1
  /\ counted' = [counted EXCEPT ![batchStart + sIdx] = "error"]
  /\ NextSingle(Len(uniquePassengers), passengerBatchSize, Len(passengerBatch))
  /\ UNCHANGED <<rawRows, rowIdx, passengerMap, duplicates, invalidKeys, uniquePassengers,
                 store, script, uploaded, alreadyExist, runNo, firstRunUploaded, notPaxVars>>

\* The load phase (Step 3) is run a second time on the same clean batch,
\* against the store as the first run left it.
P_RunAgain ==
  /\ script = "uploadPassengers" /\ pc = "done" /\ runNo = 1
  /\ uniquePassengers # <<>>
  /\ runNo' = 2
  /\ firstRunUploaded' = {k \in 1..Len(counted) : counted[k] = "uploaded"}
  /\ StartLoad(Len(uniquePassengers))
  /\ UNCHANGED <<rawRows, rowIdx, passengerMap, duplicates, invalidKeys, uniquePassengers,
                 storeVars, script, notPaxVars>>

NextPassengers ==
  \/ P_RowInvalid \/ P_RowDuplicate \/ P_RowUnique \/ P_StartUpload
  \/ P_BatchInserted \/ P_BatchDuplicateError \/ P_BatchOtherError \/ P_BatchThrows
  \/ P_SingleInserted \/ P_SingleDuplicateError \/ P_SingleOtherError \/ P_SingleThrows
  \/ P_RunAgain

SpecPassengers == InitPassengers /\ [][NextPassengers]_vars

----------------------------------------------------------------------------
(* Script runs: scripts/uploadAllSales.js.                                 *)

notSalesVars == <<detectVars, keyVars, fileVars, paxVars, alreadyExist, airportVars, amountVars,
                  flightVars, streamVars>>

\* A row of the travel agency file (columns TransactionID, PassengerID,
\* FlightID, TransactionDate, TicketPrice, Taxes, BaggageFees, TotalAmount).
travelRow(transactionID, passengerID, ticketPrice) ==
  [TransactionID |-> transactionID, PassengerID |-> passengerID, PassengerKey |-> Undefined,
   FlightID |-> <<"F","1">>, FlightKey |-> Undefined,
   TransactionDate |-> <<"2","0","2","4","-","0","1","-","0","5">>, DateKey |-> Undefined,
   TicketPrice |-> ticketPrice, Taxes |-> <<>>, BaggageFees |-> <<"5">>,
   TotalAmount |-> <<"1","0","5",".","5">>]

\* A row of the corporate file (columns TransactionID, PassengerKey,
\* FlightKey, DateKey, TicketPrice, Taxes, BaggageFees, TotalAmount).
corporateRow(transactionID, dateKey) ==
  [TransactionID |-> transactionID, PassengerID |-> Undefined, PassengerKey |-> Lit.P123,
   FlightID |-> Undefined, FlightKey |-> <<"F","1">>,
   TransactionDate |-> Undefined, DateKey |-> dateKey,
   TicketPrice |-> <<"1","0","0">>, Taxes |-> <<>>, BaggageFees |-> <<>>,
   TotalAmount |-> <<"1","0","0">>]

\* Travel agency rows: ids "7" and "07" (one transaction id), a row with id
\* "7" and a rejected passenger key, and a row with id "8".
TravelAgencyRows ==
  { travelRow(<<"7">>, Lit.P123, <<"1","0","0">>),
    travelRow(<<"0","7">>, Lit.P456, <<"1","0","0">>),
    travelRow(<<"7">>, Lit.P1, <<"1","0","0">>),
    travelRow(<<"8">>, Lit.P123, <<"1","0","0">>) }

\* The corporate files: empty, one row with id "7" (as in the travel agency
\* file), that row twice, and a row with an unreadable date.
CorporateFiles ==
  LET row == corporateRow(<<"7">>, <<"2","0","2","4","-","0","1","-","0","5">>)
  IN  { <<>>, <<row>>, <<row, row>>, <<corporateRow(<<"7">>, <<"s","o","o","n">>)>> }

InitSales ==
  /\ script = "uploadAllSales" /\ pc = "file"
  /\ travelFile \in SeqsUpTo(TravelAgencyRows, MaxTravelRows)
  /\ corporateFile \in CorporateFiles
  /\ sourceType = "travel_agency" /\ rowNo = 1
  /\ sales = <<>> /\ dirtyRows = <<>> /\ seenTransactionIds = {}
  /\ travelSales = <<>> /\ travelDirty = <<>> /\ corporateDirty = <<>>
  /\ finalSales = <<>> /\ crossFileDuplicates = <<>> /\ allDirty = <<>>
  /\ skippedDuplicates = 0 /\ dirtyStart = 0 /\ backupFile = <<>>
  /\ batchStart = 0 /\ sIdx = 1 /\ uploaded = 0 /\ errors = 0 /\ alreadyExist = 0
  /\ counted = <<>> /\ runNo = 1 /\ firstRunUploaded = {}
  /\ StoreIdle /\ DetectIdle /\ KeyIdle /\ FileIdle /\ PaxIdle /\ AirportIdle /\ AmountIdle /\ FlightIdle /\ StreamIdle

\* The file processSalesFile is reading.
salesFile == IF sourceType = "travel_agency" THEN travelFile ELSE corporateFile

\* .on('data'): the transaction id is in seenTransactionIds already.
S_RowDuplicate ==
  /\ script = "uploadAllSales" /\ pc = "file" /\ rowNo <= Len(salesFile)
  /\ LET transactionId == transactionIdOf(salesFile[rowNo], sourceType)
     IN  /\ transactionId \in seenTransactionIds
         /\ dirtyRows' = Append(dirtyRows,
                           dirtyEntry(sourceType, salesFile[rowNo],
                             reason("Duplicate transaction ID within file: ", transactionId)))
  /\ rowNo' = rowNo + 1
  /\ UNCHANGED <<travelFile, corporateFile, sourceType, sales, seenTransactionIds, travelSales,
                 travelDirty, corporateDirty, finalSales, crossFileDuplicates, allDirty,
                 skippedDuplicates, dirtyStart, backupFile, storeVars, script, pc, batchStart,
                 sIdx, uploaded, errors, counted, runNo, firstRunUploaded, notSalesVars>>

\* .on('data'): a new transaction id, added to seenTransactionIds; then the
\* row fails a validation.
S_RowRejected ==
  /\ script = "uploadAllSales" /\ pc = "file" /\ rowNo <= Len(salesFile)
  /\ transactionIdOf(salesFile[rowNo], sourceType) \notin seenTransactionIds
  /\ rejectReason(salesFile[rowNo]) # ""
  /\ seenTransactionIds' = seenTransactionIds \cup {transactionIdOf(salesFile[rowNo], sourceType)}
  /\ dirtyRows' = Append(dirtyRows,
                    dirtyEntry(sourceType, salesFile[rowNo],
                               reason(rejectReason(salesFile[rowNo]), <<>>)))
  /\ rowNo' = rowNo + 1
  /\ UNCHANGED <<travelFile, corporateFile, sourceType, sales, travelSales,
                 travelDirty, corporateDirty, finalSales, crossFileDuplicates, allDirty,
                 skippedDuplicates, dirtyStart, backupFile, storeVars, script, pc, batchStart,
                 sIdx, uploaded, errors, counted, runNo, firstRunUploaded, notSalesVars>>

\* .on('data'): a new transaction id and a valid row: sales.push({...}).
S_RowClean ==
  /\ script = "uploadAllSales" /\ pc = "file" /\ rowNo <= Len(salesFile)
  /\ transactionIdOf(salesFile[rowNo], sourceType) \notin seenTransactionIds
  /\ rejectReason(salesFile[rowNo]) = ""
  /\ seenTransactionIds' = seenTransactionIds \cup {transactionIdOf(salesFile[rowNo], sourceType)}
  /\ sales' = Append(sales, saleOf(salesFile[rowNo], sourceType))
  /\ rowNo' = rowNo + 1
  /\ UNCHANGED <<travelFile, corporateFile, sourceType, dirtyRows, travelSales,
                 travelDirty, corporateDirty, finalSales, crossFileDuplicates, allDirty,
                 skippedDuplicates, dirtyStart, backupFile, storeVars, script, pc, batchStart,
                 sIdx, uploaded, errors, counted, runNo, firstRunUploaded, notSalesVars>>

\* The travel agency file ends: { sales: travelSales, dirtyRows: travelDirty },
\* and processSalesFile starts on the corporate file.
S_TravelFileRead ==
  /\ script = "uploadAllSales" /\ pc = "file" /\ sourceType = "travel_agency"
  /\ rowNo > Len(travelFile)
  /\ travelSales' = sales /\ travelDirty' = dirtyRows
  /\ sourceType' = "corporate" /\ rowNo' = 1
  /\ sales' = <<>> /\ dirtyRows' = <<>> /\ seenTransactionIds' = {}
  /\ UNCHANGED <<travelFile, corporateFile, corporateDirty, finalSales, crossFileDuplicates,
                 allDirty, skippedDuplicates, dirtyStart, backupFile, storeVars, script, pc,
                 batchStart, sIdx, uploaded, errors, counted, runNo, firstRunUploaded,
                 notSalesVars>>

\* The counters and loops at the start of the upload of n clean sales, with
\* allDirty as given.
S_StartLoad(n, dirty) ==
  /\ allDirty' = dirty
  /\ batchStart' = 0 /\ sIdx' = 1 /\ uploaded' = 0 /\ errors' = 0 /\ skippedDuplicates' = 0
  /\ dirtyStart' = 0
  /\ counted' = [k \in 1..n |-> "none"]
  /\ pc' = IF n > 0 THEN "upload" ELSE IF dirty # <<>> THEN "dirty" ELSE "done"

\* The corporate file ends: allSales, allDirty, the pass for duplicates
\* across files, and the start of the upload.
S_CorporateFileRead ==
  /\ script = "uploadAllSales" /\ pc = "file" /\ sourceType = "corporate"
  /\ rowNo > Len(corporateFile)
  /\ LET pass == crossFile(travelSales \o sales, Len(travelSales) + Len(sales))
     IN  /\ finalSales' = pass.finalSales
         /\ crossFileDuplicates' = pass.crossFileDuplicates
         /\ S_StartLoad(Len(pass.finalSales),
                        travelDirty \o dirtyRows \o pass.crossFileDuplicates)
  /\ corporateDirty' = dirtyRows
  /\ sourceType' = "none"
  /\ sales' = <<>> /\ dirtyRows' = <<>> /\ seenTransactionIds' = {}
  /\ UNCHANGED <<travelFile, corporateFile, rowNo, travelSales, travelDirty, backupFile,
                 storeVars, script, runNo, firstRunUploaded, notSalesVars>>

\* finalSales.slice(i, i + batchSize)
salesBatch ==
  SubSeq(finalSales, batchStart + 1,
         IF batchStart + salesBatchSize < Len(finalSales)
         THEN batchStart + salesBatchSize ELSE Len(finalSales))

\* i += batchSize and the loop test; after the last batch the dirty save
\* follows if allDirty (as the step leaves it) has entries.
S_NextBatch(dirty) ==
  /\ batchStart' = batchStart + salesBatchSize
  /\ sIdx' = 1
  /\ pc' = IF batchStart + salesBatchSize < Len(finalSales) THEN "upload"
           ELSE IF dirty # <<>> THEN "dirty" ELSE "done"

\* The end of one iteration of "for (const sale of batch)".
S_NextSingle(dirty) ==
  IF sIdx < Len(salesBatch)
  THEN sIdx' = sIdx + 1 /\ UNCHANGED <<pc, batchStart>>
  ELSE S_NextBatch(dirty)

\* What the upload loop of uploadAllSales never writes.
salesLoaded == <<travelFile, corporateFile, sourceType, rowNo, sales, dirtyRows,
                 seenTransactionIds, travelSales, travelDirty, corporateDirty, finalSales,
                 crossFileDuplicates, dirtyStart, backupFile, dirty_data, script, runNo,
                 firstRunUploaded, notSalesVars>>

\* The batch upsert succeeds: uploaded += batch.length.
S_BatchUpserted ==
  /\ script = "uploadAllSales" /\ pc = "upload"
  /\ store' = [store EXCEPT !["fact_sales"] = upserted(@, salesBatch, "transaction_id")]
  /\ uploaded' = uploaded + Len(salesBatch)
  /\ counted' = markBatch(Len(finalSales), salesBatchSize, "uploaded")
  /\ S_NextBatch(allDirty)
  /\ UNCHANGED <<allDirty, errors, skippedDuplicates, salesLoaded>>

\* The batch upsert returns an error: "trying individual inserts".
S_BatchError ==
  /\ script = "uploadAllSales" /\ pc = "upload"
  /\ \E error \in StoreErrors : TRUE
  /\ pc' = "single" /\ sIdx' = 1
  /\ UNCHANGED <<store, allDirty, batchStart, uploaded, errors, skippedDuplicates, counted,
                 salesLoaded>>

\* The batch upsert throws: catch (batchError) { errors += batch.length; }
S_BatchThrows ==
  /\ script = "uploadAllSales" /\ pc = "upload"
  /\ \E ex \in StoreExceptions : TRUE
  /\ errors' = errors + Len(salesBatch)
  /\ counted' = markBatch(Len(finalSales), salesBatchSize, "error")
  /\ S_NextBatch(allDirty)
  /\ UNCHANGED <<store, allDirty, uploaded, skippedDuplicates, salesLoaded>>

\* The individual upsert succeeds: uploaded++.
S_SingleUpserted ==
  /\ script = "uploadAllSales" /\ pc = "single"
  /\ store' = [store EXCEPT !["fact_sales"] =
                 upserted(@, <<salesBatch[sIdx]>>, "transaction_id")]
  /\ uploaded' = uploaded + 1
  /\ counted' = [counted EXCEPT ![batchStart + sIdx] = "uploaded"]
  /\ S_NextSingle(allDirty)
  /\ UNCHANGED <<allDirty, errors, skippedDuplicates, salesLoaded>>

\* The individual upsert returns a duplicate error: skippedDuplicates++ and
\* allDirty.push.
S_SingleDuplicateError ==
  /\ script = "uploadAllSales" /\ pc = "single"
  /\ \E singleError \in StoreErrors : isDuplicateError(singleError)
  /\ skippedDuplicates' = skippedDuplicates + 1
  /\ allDirty' = Append(allDirty,
                   dirtyEntry(salesBatch[sIdx].sales_source, salesBatch[sIdx],
                     reason("Transaction ID already exists in database: ",
                            salesBatch[sIdx].transaction_id)))
  /\ counted' = [counted EXCEPT ![batchStart + sIdx] = "exists"]
  /\ S_NextSingle(allDirty')
  /\ UNCHANGED <<store, uploaded, errors, salesLoaded>>

\* The individual upsert returns another error: errors++ and allDirty.push.
S_SingleOtherError ==
  /\ script = "uploadAllSales" /\ pc = "single"
  /\ \E singleError \in StoreErrors :
       /\ ~isDuplicateError(singleError)
       /\ allDirty' = Append(allDirty,
                        dirtyEntry(salesBatch[sIdx].sales_source, salesBatch[sIdx],
                                   reason("Upload failed: ", singleError.message)))
  /\ errors' = errors + 1
  /\ counted' = [counted EXCEPT ![batchStart + sIdx] = "error"]
  /\ S_NextSingle(allDirty')
  /\ UNCHANGED <<store, uploaded, skippedDuplicates, salesLoaded>>

\* The catch block of the individual upsert without its errors++.
S_SingleThrows_uncounted ==
  /\ script = "uploadAllSales" /\ pc = "single"
  /\ \E singleErr \in StoreExceptions : TRUE
  /\ counted' = [counted EXCEPT ![batchStart + sIdx] = "error"]
  /\ S_NextSingle(allDirty)
  /\ UNCHANGED <<store, allDirty, uploaded, errors, skippedDuplicates, salesLoaded>>

\* The individual upsert throws: catch (singleErr) { errors++; }
S_SingleThrows ==
  /\ script = "uploadAllSales" /\ pc = "single"
  /\ \E singleErr \in StoreExceptions : TRUE
  /\ errors' = errors + 1
  /\ counted' = [counted EXCEPT ![batchStart + sIdx] = "error"]
  /\ S_NextSingle(allDirty)
  /\ UNCHANGED <<store, allDirty, uploaded, skippedDuplicates, salesLoaded>>

\* allDirty.slice(i, i + dirtyBatchSize)
dirtyBatch ==
  SubSeq(allDirty, dirtyStart + 1,
         IF dirtyStart + dirtyBatchSize < Len(allDirty)
         THEN dirtyStart + dirtyBatchSize ELSE Len(allDirty))

\* What the dirty-save loop of uploadAllSales never writes.
salesSaved == <<travelFile, corporateFile, sourceType, rowNo, sales, dirtyRows,
                seenTransactionIds, travelSales, travelDirty, corporateDirty, finalSales,
                crossFileDuplicates, allDirty, skippedDuplicates, store, script, batchStart,
                sIdx, uploaded, errors, counted, runNo, firstRunUploaded, notSalesVars>>

\* A batch of allDirty is inserted into dirty_data.
S_DirtyBatchSaved ==
  /\ script = "uploadAllSales" /\ pc = "dirty"
  /\ dirty_data' = dirty_data \o dirtyBatch
  /\ dirtyStart' = dirtyStart + dirtyBatchSize
  /\ pc' = IF dirtyStart + dirtyBatchSize < Len(allDirty) THEN "dirty" ELSE "done"
  /\ UNCHANGED <<backupFile, salesSaved>>

\* The insert returns an error: the batch is appended to
\* dirty_sales_backup.json.
S_DirtyBatchError ==
  /\ script = "uploadAllSales" /\ pc = "dirty"
  /\ \E error \in StoreErrors : TRUE
  /\ backupFile' = Append(backupFile, [batch |-> dirtyBatch])
  /\ dirtyStart' = dirtyStart + dirtyBatchSize
  /\ pc' = IF dirtyStart + dirtyBatchSize < Len(allDirty) THEN "dirty" ELSE "done"
  /\ UNCHANGED <<dirty_data, salesSaved>>

\* The insert throws: nothing in uploadAllSales catches it; the caller logs
\* 'Fatal error' and exits.
S_DirtyBatchThrows ==
  /\ script = "uploadAllSales" /\ pc = "dirty"
  /\ \E ex \in StoreExceptions : TRUE
  /\ pc' = "fatal"
  /\ UNCHANGED <<dirty_data, backupFile, dirtyStart, salesSaved>>

\* The script is run a second time on the same files, so with the same
\* finalSales and the same rejected rows, against the store as the first
\* run left it.
S_RunAgain ==
  /\ script = "uploadAllSales" /\ pc = "done" /\ runNo = 1
  /\ finalSales # <<>>
  /\ runNo' = 2
  /\ firstRunUploaded' = {k \in 1..Len(counted) : counted[k] = "uploaded"}
  /\ S_StartLoad(Len(finalSales), travelDirty \o corporateDirty \o crossFileDuplicates)
  /\ UNCHANGED <<travelFile, corporateFile, sourceType, rowNo, sales, dirtyRows,
                 seenTransactionIds, travelSales, travelDirty, corporateDirty, finalSales,
                 crossFileDuplicates, backupFile, storeVars, script, notSalesVars>>

NextSales ==
  \/ S_RowDuplicate \/ S_RowRejected \/ S_RowClean \/ S_TravelFileRead \/ S_CorporateFileRead
  \/ S_BatchUpserted \/ S_BatchError \/ S_BatchThrows
  \/ S_SingleUpserted \/ S_SingleDuplicateError \/ S_SingleOtherError \/ S_SingleThrows
  \/ S_DirtyBatchSaved \/ S_DirtyBatchError \/ S_DirtyBatchThrows

\* One run of the script.
SpecSales == InitSales /\ [][NextSales]_vars

NextSalesTwice == NextSales \/ S_RunAgain

\* A run of the script followed by a second run.
SpecSalesTwice == InitSales /\ [][NextSalesTwice]_vars

InitLoad == InitPassengers \/ InitSales

NextLoad == NextPassengers \/ NextSales

\* A run of either script with a load phase and summary counters.
SpecLoad == InitLoad /\ [][NextLoad]_vars

----------------------------------------------------------------------------
(* Direct calls of SmartFileProcessor.processSalesData and                 *)
(* processFlightData on parsed rows.                                       *)

\* Sales rows: the travel agency rows, one without a ticket price and with
\* a negative total, and a corporate row.
SalesRows ==
  TravelAgencyRows
  \cup {[travelRow(<<"9">>, Lit.P123, Undefined) EXCEPT !.TotalAmount = <<"-","5",".","5">>]}
  \cup {corporateRow(<<"7">>, <<"2","0","2","4","-","0","1","-","0","5">>)}

\* A row of datasets/flights.csv.
flightRow(flightKey, origin, destination) ==
  [FlightKey |-> flightKey, OriginAirportKey |-> origin, DestinationAirportKey |-> destination,
   AircraftType |-> Undefined]

\* Flight rows: from "jfk" or from "ny" to "lax", one without a
\* destination, and a second flight back from "lax" to "jfk".
FlightCsvRows ==
  { flightRow(<<"F","1">>, <<"j","f","k">>, <<"l","a","x">>),
    flightRow(<<"F","1">>, <<"n","y">>, <<"l","a","x">>),
    flightRow(<<"F","1">>, <<"j","f","k">>, <<>>),
    flightRow(<<"F","2">>, <<"l","a","x">>, <<"j","f","k">>) }

InitProcess ==
  /\ \/ /\ data \in SeqsUpTo(SalesRows, MaxFileRows)
        /\ fType \in {"travel_agency_sales", "corporate_sales"}
     \/ /\ data \in SeqsUpTo(FlightCsvRows, MaxFileRows)
        /\ fType = "flights"
  /\ pcF = "call"
  /\ fHeaders = <<>> /\ fRows = <<>> /\ hdrs = <<>>
  /\ cleanData = <<>> /\ dirtyData = <<>> /\ ret = [success |-> FALSE]
  /\ DetectIdle /\ KeyIdle /\ StoreIdle /\ PaxIdle /\ LoadIdle /\ SalesIdle
  /\ AirportIdle /\ AmountIdle /\ FlightIdle /\ StreamIdle

\* result = await this.processSalesData(data, 'travel_agency' | 'corporate')
CallProcessSalesData ==
  /\ pcF = "call" /\ fType \in {"travel_agency_sales", "corporate_sales"}
  /\ LET source == IF fType = "travel_agency_sales" THEN "travel_agency" ELSE "corporate"
     IN  /\ cleanData' = SFP_processSalesData(data, source).cleanData
         /\ dirtyData' = SFP_processSalesData(data, source).dirtyData
  /\ pcF' = "processed"
  /\ UNCHANGED <<fHeaders, fRows, hdrs, fType, data, ret, storeVars, notFileVars>>

\* result = await this.processFlightData(data)
CallProcessFlightData ==
  /\ pcF = "call" /\ fType = "flights"
  /\ cleanData' = SFP_processFlightData(data).cleanData
  /\ dirtyData' = SFP_processFlightData(data).dirtyData
  /\ pcF' = "processed"
  /\ UNCHANGED <<fHeaders, fRows, hdrs, fType, data, ret, storeVars, notFileVars>>

NextProcess == CallProcessSalesData \/ CallProcessFlightData

SpecProcess == InitProcess /\ [][NextProcess]_vars

----------------------------------------------------------------------------
(* Script runs: scripts/uploadAirports.js.  The rows of the stream are kept *)
(* in rawRows with rowIdx the next 'data' event; batchStart is the upload   *)
(* loop's i.                                                                *)

notAirportVars == <<detectVars, keyVars, fileVars, salesVars, amountVars, flightVars,
                    streamVars, passengerMap,
                    duplicates, invalidKeys, uniquePassengers, failedPassengers, sIdx,
                    uploaded, errors, alreadyExist, counted, runNo, firstRunUploaded>>

\* The rows of datasets/airports.csv: the keys "ny ", "jfk", " JFK" and
\* "lax", with the country "usa" or without one.
AirportCsvRows ==
  { [AirportKey |-> k, AirportName |-> <<"A","p","t">>, City |-> <<"C","i","t","y">>,
     Country |-> c] :
      k \in {<<"n","y"," ">>, <<"j","f","k">>, <<" ","J","F","K">>, <<"l","a","x">>},
      c \in {Undefined, <<"u","s","a">>} }

InitAirports ==
  /\ script = "uploadAirports" /\ pc = "rows"
  /\ rawRows \in SeqsUpTo(AirportCsvRows, MaxFileRows)
  /\ rowIdx = 1 /\ passengerMap = <<>> /\ duplicates = <<>> /\ invalidKeys = <<>>
  /\ uniquePassengers = <<>> /\ failedPassengers = <<>>
  /\ batchStart = 0 /\ sIdx = 1 /\ uploaded = 0 /\ errors = 0 /\ alreadyExist = 0
  /\ counted = <<>> /\ runNo = 1 /\ firstRunUploaded = {}
  /\ airports = <<>> /\ airportSet = {} /\ successCount = 0 /\ errorCount = 0
  /\ store \in {EmptyStore,
                [EmptyStore EXCEPT !["dim_airport"] =
                   {[airport_key |-> <<"J","F","K">>, airport_name |-> <<"O","l","d">>,
                     city |-> <<"C","i","t","y">>, country |-> Lit.Unknown]}]}
  /\ dirty_data = <<>>
  /\ DetectIdle /\ KeyIdle /\ FileIdle /\ SalesIdle /\ AmountIdle /\ FlightIdle /\ StreamIdle

\* The 'data' handler on a row whose key is absent or not 3 characters long:
\* console.log and return.
A_RowInvalid ==
  /\ script = "uploadAirports" /\ pc = "rows" /\ rowIdx <= Len(rawRows)
  /\ invalidAirportKey(airportKeyOf(rawRows[rowIdx]))
  /\ rowIdx' = rowIdx + 1
  /\ UNCHANGED <<rawRows, airportVars, storeVars, script, pc, batchStart, notAirportVars>>

\* The 'data' handler on a row whose key is in airportSet: console.log and
\* return.
A_RowDuplicate ==
  /\ script = "uploadAirports" /\ pc = "rows" /\ rowIdx <= Len(rawRows)
  /\ ~invalidAirportKey(airportKeyOf(rawRows[rowIdx]))
  /\ airportKeyOf(rawRows[rowIdx]) \in airportSet
  /\ rowIdx' = rowIdx + 1
  /\ UNCHANGED <<rawRows, airportVars, storeVars, script, pc, batchStart, notAirportVars>>

\* The 'data' handler on a row with a new valid key: airportSet.add,
\* airports.push.
A_RowKept ==
  /\ script = "uploadAirports" /\ pc = "rows" /\ rowIdx <= Len(rawRows)
  /\ ~invalidAirportKey(airportKeyOf(rawRows[rowIdx]))
  /\ airportKeyOf(rawRows[rowIdx]) \notin airportSet
  /\ airportSet' = airportSet \cup {airportKeyOf(rawRows[rowIdx])}
  /\ airports' = Append(airports, airportOf(rawRows[rowIdx]))
  /\ rowIdx' = rowIdx + 1
  /\ UNCHANGED <<rawRows, successCount, errorCount, storeVars, script, pc, batchStart,
                 notAirportVars>>

\* 'end': if (airports.length === 0) return; otherwise the upload loop
\* starts with both counters at 0.
A_StartUpload ==
  /\ script = "uploadAirports" /\ pc = "rows" /\ rowIdx > Len(rawRows)
  /\ successCount' = 0 /\ errorCount' = 0 /\ batchStart' = 0
  /\ pc' = IF Len(airports) = 0 THEN "done" ELSE "upload"
  /\ UNCHANGED <<rawRows, rowIdx, airports, airportSet, storeVars, script, notAirportVars>>

\* i++ and the loop test.
A_NextAirport ==
  /\ batchStart' = batchStart + 1
  /\ pc' = IF batchStart + 1 < Len(airports) THEN "upload" ELSE "done"

\* upsert([airport], { onConflict: 'airport_key' }) succeeds: successCount++.
A_Upserted ==
  /\ script = "uploadAirports" /\ pc = "upload"
  /\ store' = [store EXCEPT !["dim_airport"] =
                 upserted(@, <<airports[batchStart + 1]>>, "airport_key")]
  /\ successCount' = successCount + 1
  /\ A_NextAirport
  /\ UNCHANGED <<rawRows, rowIdx, airports, airportSet, errorCount, dirty_data, script,
                 notAirportVars>>

\* The upsert returns an error: errorCount++.
A_UpsertError ==
  /\ script = "uploadAirports" /\ pc = "upload"
  /\ \E error \in StoreErrors : errorCount' = errorCount + 1
  /\ A_NextAirport
  /\ UNCHANGED <<rawRows, rowIdx, airports, airportSet, successCount, storeVars, script,
                 notAirportVars>>

\* The upsert throws: the catch block, errorCount++.
A_UpsertThrows ==
  /\ script = "uploadAirports" /\ pc = "upload"
  /\ \E error \in StoreExceptions : errorCount' = errorCount + 1
  /\ A_NextAirport
  /\ UNCHANGED <<rawRows, rowIdx, airports, airportSet, successCount, storeVars, script,
                 notAirportVars>>

NextAirports ==
  \/ A_RowInvalid \/ A_RowDuplicate \/ A_RowKept \/ A_StartUpload
  \/ A_Upserted \/ A_UpsertError \/ A_UpsertThrows

SpecAirports == InitAirports /\ [][NextAirports]_vars

----------------------------------------------------------------------------
(* Amount standardization: SalesUploader.standardizeAmount and the          *)
(* standardize of SmartFileProcessor.processSalesData on the same amount.   *)

notAmountVars == <<detectVars, keyVars, fileVars, storeVars, paxVars, loadVars, salesVars,
                   airportVars, flightVars, streamVars>>

\* The characters of raw amounts: digits whose third fraction digit is far
\* from a half (toFixed rounds the binary value), a dot, a minus sign and
\* a currency symbol.
AmountChars == {"1", "9", ".", "-", "$"}

\* A raw amount: a CSV cell, an absent column, or the 0 of `row.Taxes || 0`.
RawAmounts == StringsUpTo(AmountChars, MaxAmountLen) \cup {Undefined, Zero}

InitAmount ==
  /\ amount \in RawAmounts
  /\ amountOut = [SalesUploader |-> {}, SmartFileProcessor |-> {}]
  /\ DetectIdle /\ KeyIdle /\ FileIdle /\ StoreIdle /\ PaxIdle /\ LoadIdle /\ SalesIdle
  /\ AirportIdle /\ FlightIdle /\ StreamIdle

\* SalesUploader.standardizeAmount(amount)
UploaderStandardizes ==
  /\ amountOut.SalesUploader = {}
  /\ amountOut' = [amountOut EXCEPT !.SalesUploader = {standardizeAmount(amount)}]
  /\ UNCHANGED <<amount, notAmountVars>>

\* processSalesData's standardize(amount)
ProcessorStandardizes ==
  /\ amountOut.SmartFileProcessor = {}
  /\ amountOut' = [amountOut EXCEPT !.SmartFileProcessor = {SFP_standardize(amount)}]
  /\ UNCHANGED <<amount, notAmountVars>>

NextAmount == UploaderStandardizes \/ ProcessorStandardizes

SpecAmount == InitAmount /\ [][NextAmount]_vars

----------------------------------------------------------------------------
(* Script runs: scripts/uploadFlights.js.  rowIdx is the row loop's i + 1;  *)
(* batchStart is the upload loop's i, sIdx the position in "for (const      *)
(* flight of batch)".                                                       *)

notFlightVars == <<detectVars, keyVars, fileVars, salesVars, airportVars, amountVars,
                   streamVars, passengerMap, duplicates, invalidKeys, uniquePassengers,
                   failedPassengers, errors, alreadyExist, counted, runNo, firstRunUploaded,
                   dirty_data>>

\* dim_airport before the run: empty, or with a row for JFK that is no
\* placeholder.
AirportTables ==
  { {},
    {[airport_key |-> <<"J","F","K">>, airport_name |-> <<"O","l","d">>,
      city |-> <<"C","i","t","y">>, country |-> <<"U","S","A">>]} }

InitFlights ==
  /\ script = "uploadFlights" /\ pc = "cache"
  /\ rawRows \in SeqsUpTo(FlightCsvRows, MaxFileRows)
  /\ rowIdx = 1 /\ passengerMap = <<>> /\ duplicates = <<>> /\ invalidKeys = <<>>
  /\ uniquePassengers = <<>> /\ failedPassengers = <<>>
  /\ batchStart = 0 /\ sIdx = 1 /\ uploaded = 0 /\ errors = 0 /\ alreadyExist = 0
  /\ counted = <<>> /\ runNo = 1 /\ firstRunUploaded = {}
  /\ airportCache = {} /\ flights = <<>> /\ skipped = 0 /\ originOk = FALSE /\ destOk = FALSE
  /\ \E table \in AirportTables : store = [EmptyStore EXCEPT !["dim_airport"] = table]
  /\ dirty_data = <<>>
  /\ DetectIdle /\ KeyIdle /\ FileIdle /\ SalesIdle /\ AirportIdle /\ AmountIdle /\ StreamIdle

\* Step 1: the select of every airport_key answers with the rows, which go
\* into the cache, or with no data (existingAirports is then the empty set
\* of answers).
F_LoadCache ==
  /\ script = "uploadFlights" /\ pc = "cache"
  /\ \E existingAirports \in {{keysOf(store["dim_airport"], "airport_key")}, {}} :
        airportCache' = airportCache \cup UNION existingAirports
  /\ pc' = "rows"
  /\ UNCHANGED <<rawRows, rowIdx, flights, skipped, originOk, destOk, store, script, batchStart,
                 sIdx, uploaded, notFlightVars>>

flightKeyOf(row) == optTrim(row.FlightKey)

originCode(row) == optTrimUpper(row.OriginAirportKey)

destinationCode(row) == optTrimUpper(row.DestinationAirportKey)

\* !originCode || !destinationCode || !flightKey
missingData(row) ==
  \/ originCode(row) \in {Undefined, <<>>}
  \/ destinationCode(row) \in {Undefined, <<>>}
  \/ flightKeyOf(row) \in {Undefined, <<>>}

\* skipped++; continue;
F_Skip ==
  /\ skipped' = skipped + 1
  /\ rowIdx' = rowIdx + 1
  /\ pc' = "rows"

\* Step 3, a row with missing data.
F_RowMissingData ==
  /\ script = "uploadFlights" /\ pc = "rows" /\ rowIdx <= Len(rawRows)
  /\ missingData(rawRows[rowIdx])
  /\ F_Skip
  /\ UNCHANGED <<rawRows, airportCache, flights, originOk, destOk, store, script, batchStart,
                 sIdx, uploaded, notFlightVars>>

\* const originOk = await getOrCreateAirport(originCode);
F_ResolveOrigin ==
  /\ script = "uploadFlights" /\ pc = "rows" /\ rowIdx <= Len(rawRows)
  /\ ~missingData(rawRows[rowIdx])
  /\ \E outcome \in getOrCreateAirport(airportCache, store["dim_airport"],
                                       originCode(rawRows[rowIdx])) :
        /\ airportCache' = outcome.cache
        /\ store' = [store EXCEPT !["dim_airport"] = outcome.table]
        /\ originOk' = outcome.ok
  /\ pc' = "dest"
  /\ UNCHANGED <<rawRows, rowIdx, flights, skipped, destOk, script, batchStart, sIdx, uploaded,
                 notFlightVars>>

\* const destOk = await getOrCreateAirport(destinationCode);
F_ResolveDestination ==
  /\ script = "uploadFlights" /\ pc = "dest"
  /\ \E outcome \in getOrCreateAirport(airportCache, store["dim_airport"],
                                       destinationCode(rawRows[rowIdx])) :
        /\ airportCache' = outcome.cache
        /\ store' = [store EXCEPT !["dim_airport"] = outcome.table]
        /\ destOk' = outcome.ok
  /\ pc' = "verify"
  /\ UNCHANGED <<rawRows, rowIdx, flights, skipped, originOk, script, batchStart, sIdx, uploaded,
                 notFlightVars>>

\* if (!originOk || !destOk) { skipped++; continue; }
F_AirportCreationFailed ==
  /\ script = "uploadFlights" /\ pc = "verify"
  /\ ~originOk \/ ~destOk
  /\ F_Skip
  /\ UNCHANGED <<rawRows, airportCache, flights, originOk, destOk, store, script, batchStart,
                 sIdx, uploaded, notFlightVars>>

\* Both airports are read back from dim_airport: flights.push({...}).
F_Verified ==
  /\ script = "uploadFlights" /\ pc = "verify"
  /\ originOk /\ destOk
  /\ TRUE \in singleAirport(store["dim_airport"], originCode(rawRows[rowIdx]))
  /\ TRUE \in singleAirport(store["dim_airport"], destinationCode(rawRows[rowIdx]))
  /\ flights' = Append(flights,
                  [flight_key |-> flightKeyOf(rawRows[rowIdx]),
                   origin_airport_key |-> originCode(rawRows[rowIdx]),
                   destination_airport_key |-> destinationCode(rawRows[rowIdx]),
                   aircraft_type |-> orElse(optTrim(rawRows[rowIdx].AircraftType), Lit.Unknown)])
  /\ rowIdx' = rowIdx + 1
  /\ pc' = "rows"
  /\ UNCHANGED <<rawRows, airportCache, skipped, originOk, destOk, store, script, batchStart,
                 sIdx, uploaded, notFlightVars>>

\* One of the two read-backs answers without data: "Verification failed".
F_VerificationFailed ==
  /\ script = "uploadFlights" /\ pc = "verify"
  /\ originOk /\ destOk
  /\ \E originAirport \in singleAirport(store["dim_airport"], originCode(rawRows[rowIdx])),
        destAirport \in singleAirport(store["dim_airport"], destinationCode(rawRows[rowIdx])) :
        ~originAirport \/ ~destAirport
  /\ F_Skip
  /\ UNCHANGED <<rawRows, airportCache, flights, originOk, destOk, store, script, batchStart,
                 sIdx, uploaded, notFlightVars>>

\* Step 4 starts if there is a flight to upload.
F_StartUpload ==
  /\ script = "uploadFlights" /\ pc = "rows" /\ rowIdx > Len(rawRows)
  /\ batchStart' = 0 /\ sIdx' = 1 /\ uploaded' = 0
  /\ pc' = IF Len(flights) > 0 THEN "upload" ELSE "done"
  /\ UNCHANGED <<rawRows, rowIdx, flightVars, store, script, notFlightVars>>

\* flights.slice(i, i + batchSize)
flightBatch ==
  SubSeq(flights, batchStart + 1,
         IF batchStart + flightBatchSize < Len(flights)
         THEN batchStart + flightBatchSize ELSE Len(flights))

\* i += batchSize and the loop test.
F_NextBatch ==
  /\ batchStart' = batchStart + flightBatchSize
  /\ sIdx' = 1
  /\ pc' = IF batchStart + flightBatchSize < Len(flights) THEN "upload" ELSE "done"

\* The batch upsert succeeds: uploaded += batch.length.
F_BatchUpserted ==
  /\ script = "uploadFlights" /\ pc = "upload"
  /\ store' = [store EXCEPT !["dim_flight"] = upserted(@, flightBatch, "flight_key")]
  /\ uploaded' = uploaded + Len(flightBatch)
  /\ F_NextBatch
  /\ UNCHANGED <<rawRows, rowIdx, flightVars, script, notFlightVars>>

\* The batch upsert returns an error: "Try one by one".
F_BatchError ==
  /\ script = "uploadFlights" /\ pc = "upload"
  /\ \E error \in StoreErrors : TRUE
  /\ pc' = "single" /\ sIdx' = 1
  /\ UNCHANGED <<rawRows, rowIdx, flightVars, store, script, batchStart, uploaded,
                 notFlightVars>>

\* The end of one iteration of "for (const flight of batch)".
F_NextSingle ==
  IF sIdx < Len(flightBatch)
  THEN sIdx' = sIdx + 1 /\ UNCHANGED <<pc, batchStart>>
  ELSE F_NextBatch

\* The individual upsert succeeds: uploaded++.
F_SingleUpserted ==
  /\ script = "uploadFlights" /\ pc = "single"
  /\ store' = [store EXCEPT !["dim_flight"] =
                 upserted(@, <<flightBatch[sIdx]>>, "flight_key")]
  /\ uploaded' = uploaded + 1
  /\ F_NextSingle
  /\ UNCHANGED <<rawRows, rowIdx, flightVars, script, notFlightVars>>

\* The individual upsert returns an error: console.error only.
F_SingleError ==
  /\ script = "uploadFlights" /\ pc = "single"
  /\ \E singleError \in StoreErrors : TRUE
  /\ F_NextSingle
  /\ UNCHANGED <<rawRows, rowIdx, flightVars, store, script, uploaded, notFlightVars>>

NextFlights ==
  \/ F_LoadCache \/ F_RowMissingData \/ F_ResolveOrigin \/ F_ResolveDestination
  \/ F_AirportCreationFailed \/ F_Verified \/ F_VerificationFailed \/ F_StartUpload
  \/ F_BatchUpserted \/ F_BatchError \/ F_SingleUpserted \/ F_SingleError

SpecFlights == InitFlights /\ [][NextFlights]_vars

----------------------------------------------------------------------------
(* SmartFileProcessor.readCSVHeaders: the promise and the events of the     *)
(* parser stream.  streamEvents.toEmit holds the events the stream has yet  *)
(* to emit, streamEvents.emitted those whose listeners have run.            *)

notStreamVars == <<detectVars, keyVars, pcF, hdrs, fType, data, cleanData, dirtyData, ret,
                   storeVars, paxVars, loadVars, salesVars, airportVars, amountVars, flightVars>>

event(type, csvHeaders) == [type |-> type, csvHeaders |-> csvHeaders]

\* What the parser emits for a file read to its end: 'headers' with the
\* cells of the first line if there is one, 'data' for each further line,
\* then 'end'.
eventsOf(file) ==
  (IF file.headers = <<>> THEN <<>>
   ELSE <<event("headers", file.headers)>> \o [k \in 1..Len(file.rows) |-> event("data", <<>>)])
  \o <<event("end", <<>>)>>

\* The same with an 'error' that ends the stream at any point before 'end'.
streamsOf(file) ==
  {eventsOf(file)}
  \cup {SubSeq(eventsOf(file), 1, k) \o <<event("error", <<>>)>> :
          k \in 0..(Len(eventsOf(file)) - 1)}

\* A file of zero bytes: no header line and no rows.
EmptyFile == [headers |-> <<>>, rows |-> <<>>]

InitHeaders ==
  /\ \E f \in Files \cup {EmptyFile} :
        /\ fHeaders = f.headers /\ fRows = f.rows
        /\ \E e \in streamsOf(f) : streamEvents = [emitted |-> <<>>, toEmit |-> e]
  /\ promise = [state |-> "pending", value |-> <<>>]
  /\ pcF = "idle" /\ hdrs = <<>> /\ fType = "none"
  /\ data = <<>> /\ cleanData = <<>> /\ dirtyData = <<>> /\ ret = [success |-> FALSE]
  /\ DetectIdle /\ KeyIdle /\ StoreIdle /\ PaxIdle /\ LoadIdle /\ SalesIdle
  /\ AirportIdle /\ AmountIdle /\ FlightIdle

\* resolve and reject settle a pending promise and do nothing to a settled one.
settle(p, outcome) == IF p.state = "pending" THEN outcome ELSE p

\* The stream emits its next event, of the given type.
emit(type) ==
  /\ streamEvents.toEmit # <<>>
  /\ Head(streamEvents.toEmit).type = type
  /\ streamEvents' = [emitted |-> Append(streamEvents.emitted, Head(streamEvents.toEmit)),
                      toEmit  |-> Tail(streamEvents.toEmit)]

\* .on('headers', (csvHeaders) => { resolve(csvHeaders); })
H_OnHeaders ==
  /\ emit("headers")
  /\ promise' = settle(promise, [state |-> "resolved",
                                 value |-> Head(streamEvents.toEmit).csvHeaders])
  /\ UNCHANGED <<fHeaders, fRows, notStreamVars>>

\* .on('data', () => { resolve(headers); }) with const headers = [];
H_OnData ==
  /\ emit("data")
  /\ promise' = settle(promise, [state |-> "resolved", value |-> <<>>])
  /\ UNCHANGED <<fHeaders, fRows, notStreamVars>>

\* .on('error', reject)
H_OnError ==
  /\ emit("error")
  /\ promise' = settle(promise, [state |-> "rejected", value |-> <<>>])
  /\ UNCHANGED <<fHeaders, fRows, notStreamVars>>

\* 'end' has no listener in readCSVHeaders.
H_OnEnd ==
  /\ emit("end")
  /\ UNCHANGED <<promise, fHeaders, fRows, notStreamVars>>

NextHeaders == H_OnHeaders \/ H_OnData \/ H_OnError \/ H_OnEnd

\* The event loop runs the listeners of every event the stream emits.
SpecHeaders == InitHeaders /\ [][NextHeaders]_vars /\ WF_vars(NextHeaders)

----------------------------------------------------------------------------
(* Properties of the classifier (SpecDetect).                              *)

\* Signature i's columns are all in the header list, spelled as the
\* registry declares them (and, for a sales signature, an amount column).
declaredMatch(i, hs) ==
  /\ \A k \in 1..Len(fileSignatures[i].requiredColumns) :
        arrayIncludes(hs, fileSignatures[i].requiredColumns[k])
  /\ isSalesType(fileSignatures[i].fileType) =>
        \E k \in 1..Len(fileSignatures[i].amountColumns) :
           arrayIncludes(hs, fileSignatures[i].amountColumns[k])

\* C2: a header list holding, in the registry's casing, all required
\* columns of exactly one signature (plus an amount column for a sales
\* signature) is classified as that signature's type.
C2_ExactlyOneSignatureClassified ==
  fileType # "none" =>
    \A i \in 1..Len(fileSignatures) :
       ( /\ declaredMatch(i, headers)
         /\ \A j \in 1..Len(fileSignatures) : j # i => ~declaredMatch(j, headers) )
       => fileType = fileSignatures[i].fileType

\* C3: classification is case-insensitive: a header list and its trimmed,
\* lowercased spelling (two lists equal after normalization) get the same
\* file type.
C3_CaseInsensitiveClassification ==
  fileType # "none" => fileType = detectFileType(normalizedHeaders(headers))

\* Signature i's match condition on the trimmed header set, compared
\* case-insensitively.
caseInsensitiveMatch(i, hs) ==
  /\ \A k \in 1..Len(fileSignatures[i].requiredColumns) :
        arrayIncludes(normalizedHeaders(hs),
                      toLowerCase(fileSignatures[i].requiredColumns[k]))
  /\ isSalesType(fileSignatures[i].fileType) =>
        \E k \in 1..Len(fileSignatures[i].amountColumns) :
           arrayIncludes(normalizedHeaders(hs),
                         toLowerCase(fileSignatures[i].amountColumns[k]))

\* C4: a header list matching more than one signature is classified as the
\* signature declared first, and the substring fallback decides only when
\* no signature matches.
C4_FirstDeclaredSignatureWins ==
  fileType # "none" =>
    LET M == {i \in 1..Len(fileSignatures) : caseInsensitiveMatch(i, headers)}
    IN  /\ Cardinality(M) >= 2 =>
             fileType = fileSignatures[CHOOSE i \in M : \A j \in M : i <= j].fileType
        /\ matchedBy = "fuzzy" => M = {}

----------------------------------------------------------------------------
(* Properties of passenger key standardization (SpecKey).                  *)

\* What the key rule asks for: rejection below 3 digits, else 'P' and the
\* last 3 digits.
expectedPassengerKey(key) ==
  IF key = Undefined \/ Len(digitsOf(key)) < 3 THEN Null
  ELSE <<"P">> \o sliceLast(digitsOf(key), 3)

\* C6: every implementation rejects a key with fewer than 3 digits and
\* returns 'P' + the last 3 digits otherwise, so the three agree.
C6_AllImplementationsFollowKeyRule ==
  pcK = "standardized" =>
    \A impl \in Implementations : keyOut[impl] = expectedPassengerKey(inputKey)

\* C7: standardizing an accepted key's canonical form returns it unchanged.
C7_StandardizeIdempotent ==
  pcK = "restandardized" =>
    \A impl \in Implementations :
       keyOut[impl] # Null => keyAgain[impl] = keyOut[impl]

\* A raw key that every implementation accepts and changes.
C7_Witness ==
  /\ pcK = "restandardized"
  /\ \A impl \in Implementations :
        keyOut[impl] # Null /\ keyOut[impl] # inputKey /\ keyAgain[impl] # Null

----------------------------------------------------------------------------
(* Properties of processFile (SpecFile).                                   *)

C10_JaneDoeScenario ==
  ( /\ fHeaders = PassengerHeaders
    /\ fRows = << <<Lit.P1, Lit.JaneDoe, <<>>, Lit.gold>> >> )
  => /\ fType # "none" => fType = "passengers"
     /\ pcF = "processed" =>
          /\ cleanData = << [passenger_key  |-> Lit.P001,
                             full_name      |-> Lit.JaneDoe,
                             email          |-> Lit.janeDoeEmail,
                             loyalty_status |-> Lit.Gold] >>
          /\ dirtyData = <<>>

----------------------------------------------------------------------------
(* Properties of the script runs (SpecSales, SpecSalesTwice,                *)
(* SpecPassengers).                                                         *)

\* The upload loop of uploadAllSales is over.
salesLoadOver == script = "uploadAllSales" /\ pc \in {"dirty", "done", "fatal"}

\* C1: when the load phase of a run has finished, whatever the store calls
\* answered, every record of the deduplicated clean sequence is stored in
\* the target table, or counted as already existing, or recorded in the
\* quarantine (allDirty), and never both stored and quarantined; no record
\* ends in none of the three.  Stated for uploadAllSales.
C1_NoRecordLost ==
  salesLoadOver =>
    \A k \in 1..Len(finalSales) :
       LET isStored      == finalSales[k] \in store["fact_sales"]
           isExisting    == counted[k] = "exists"
           isQuarantined == \E d \in 1..Len(allDirty) : allDirty[d].original_data = finalSales[k]
       IN  /\ isStored \/ isExisting \/ isQuarantined
           /\ ~(isStored /\ isQuarantined)

\* Row j of passengers.csv is a later occurrence of the key of row i, the
\* first valid row with that key.
laterOccurrence(i, j) ==
  LET key(r) == standardizePassengerKey(originalKey(rawRows[r]))
  IN  /\ i < j /\ key(i) # Null /\ key(i) = key(j)
      /\ \A h \in 1..(i - 1) : key(h) # key(i)

\* C8: deduplication keeps the first occurrence: when rows i < j of one
\* dedup scope have the same dedup key, row i is in the clean output, row j
\* is not, row j has a quarantine entry whose reason names it a duplicate,
\* and the clean output has no two records with one key.  Stated for the
\* passengers file, once its rows are read.
C8_DedupKeepsFirstOccurrence ==
  (script = "uploadPassengers" /\ pc # "rows") =>
    /\ \A i, j \in 1..Len(rawRows) :
         laterOccurrence(i, j) =>
           /\ \E m \in 1..Len(uniquePassengers) :
                uniquePassengers[m] =
                  passengerData(standardizePassengerKey(originalKey(rawRows[i])), rawRows[i])
           /\ \A m \in 1..Len(passengerMap) : passengerMap[m].rowNumber # j
           /\ \E d \in 1..Len(dirty_data) :
                /\ dirty_data[d].original_data = rawRows[j]
                /\ dirty_data[d].error_reason.text = "Duplicate passenger key: "
    /\ \A m, n \in 1..Len(uniquePassengers) :
         uniquePassengers[m].passenger_key = uniquePassengers[n].passenger_key => m = n

\* C9: load idempotence: when the load phase has run a second time on the
\* same clean batch, from the store as the first run left it, the store has
\* one row per conflict key and no record the first run stored is counted
\* as uploaded by the second run.  Stated for uploadAllSales.
C9_SecondRunUploadsNothing ==
  (salesLoadOver /\ runNo = 2) =>
    /\ \A r1, r2 \in store["fact_sales"] : r1.transaction_id = r2.transaction_id => r1 = r2
    /\ \A k \in firstRunUploaded : counted[k] # "uploaded"

----------------------------------------------------------------------------
(* Properties of the sales standardizers (SpecProcess).                     *)

\* C11: in a travel agency sales file, two rows whose TransactionID values
\* have the same digits, left-padded to width 6, get the same transaction
\* id, and the later row is quarantined with a within-file duplicate reason
\* instead of appearing in the clean output: the clean output holds no
\* transaction id twice.  Stated for processSalesData.
C11_SameDigitsSameIdLaterQuarantined ==
  (pcF = "processed" /\ fType = "travel_agency_sales") =>
    LET id(r) == <<"T","A">> \o padStart(digitsOf(trim(data[r].TransactionID)), 6, "0")
    IN  /\ \A i, j \in 1..Len(data) :
             (i < j /\ id(i) = id(j)) =>
                \E d \in 1..Len(dirtyData) : dirtyData[d].row = data[j]
        /\ \A m, n \in 1..Len(cleanData) :
             cleanData[m].transaction_id = cleanData[n].transaction_id => m = n

----------------------------------------------------------------------------
(* Properties of the airport load (SpecAirports).                           *)

\* C12: every airport row whose trimmed, uppercased key is not exactly 3
\* characters long is rejected: when uploadAirports is over, no clean
\* airport carries a key made from it by truncation or padding, and the
\* remote dirty_data table holds an entry for the row whose reason names an
\* invalid airport key.
C12_InvalidAirportKeyQuarantined ==
  (script = "uploadAirports" /\ pc = "done") =>
     \A r \in 1..Len(rawRows) :
        invalidAirportKey(airportKeyOf(rawRows[r])) =>
           /\ \A a \in 1..Len(airports) : Len(airports[a].airport_key) = 3
           /\ \A a \in 1..Len(airports) :
                 \E q \in 1..Len(rawRows) :
                    /\ ~invalidAirportKey(airportKeyOf(rawRows[q]))
                    /\ airports[a].airport_key = airportKeyOf(rawRows[q])
           /\ \E d \in 1..Len(dirty_data) :
                 /\ dirty_data[d].original_data = rawRows[r]
                 /\ dirty_data[d].error_reason = "Invalid airport key"

----------------------------------------------------------------------------
(* Properties of amount standardization (SpecAmount).                       *)

\* The characters of an amount that are digits, dots or minus signs.
keptOf(a) ==
  IF a \in {Undefined, Null, Zero} THEN <<>>
  ELSE SelectSeq(a, LAMBDA c : c \in Digits \cup {".", "-"})

\* The kept characters read as a decimal, in hundredths rounded to 2
\* fraction digits: an optional leading minus sign, digits, at most one dot
\* and digits; 0 when no number starts the text.
decimalOf(kept) ==
  LET negative == kept # <<>> /\ kept[1] = "-"
      body     == IF negative THEN Tail(kept) ELSE kept
      num      == parseUnsigned(SubSeq(body, 1, indexOf(body, "-") - 1))
  IN  IF num.nan THEN 0 ELSE IF negative THEN 0 - num.value ELSE num.value

\* C13: both amount standardizers return, for every amount, the value of
\* its digits, dots and minus signs read as a decimal and rounded to 2
\* fraction digits (a negative amount keeps its sign), and 0.00 for an
\* unparseable or absent amount.
C13_AmountKeepsDigitsDotsMinus ==
  /\ \A value \in amountOut.SmartFileProcessor : value = decimalOf(keptOf(amount))
  /\ \A value \in amountOut.SalesUploader : value = decimalOf(keptOf(amount))

----------------------------------------------------------------------------
(* Properties of processFile's writes (SpecFile).                           *)

\* The quarantine entry rec is in the remote dirty_data table or in a line
\* of the local fallback file.
recorded(rec) ==
  \/ \E d \in 1..Len(dirty_data) : dirty_data[d] = rec
  \/ \E b \in 1..Len(backupFile) :
        \E k \in 1..Len(backupFile[b].batch) : backupFile[b].batch[k] = rec

\* C14: a failed write of quarantine entries to dirty_data is followed by
\* an append of the same entries to a local file: when processFile has
\* returned with success, every quarantine entry it created is in dirty_data
\* or in the local fallback file.
C14_QuarantineEntryInSinkOrLocalFile ==
  (pcF = "returned" /\ ret.success) =>
     \A i \in 1..Len(dirtyData) : recorded(dirtyRecords(dirtyData, fType)[i])

\* C18: a standardizer partitions its input: cleanData and dirtyData
\* together have as many entries as there are raw rows, so every row that
\* is not clean (an airline row with a blank AirlineKey included) has a
\* quarantine entry.
C18_StandardizerPartitionsInput ==
  pcF = "processed" => Len(cleanData) + Len(dirtyData) = Len(data)

\* C19: the rows the standardizer rejected are written to the quarantine
\* sink before processFile returns, also when the upsert of the clean
\* records returns an error: a processFile that returned a failure after
\* standardizing has every rejected row in dirty_data.
C19_RejectedRowsWrittenDespiteUpsertError ==
  (pcF = "returned" /\ ~ret.success) =>
     \A i \in 1..Len(dirtyData) :
        \E d \in 1..Len(dirty_data) : dirty_data[d] = dirtyRecords(dirtyData, fType)[i]

\* C20: deduplication runs before the load: the records processFile passes
\* to its one upsert call carry pairwise different conflict keys.
C20_UpsertCallHasDistinctConflictKeys ==
  (pcF = "processed" /\ cleanData # <<>>) =>
     LET column == getConflictColumn(signatureOf(fType).targetTable)
     IN  \A m, n \in 1..Len(cleanData) :
            cleanData[m][column] = cleanData[n][column] => m = n

----------------------------------------------------------------------------
(* Properties of the load phases (SpecLoad, SpecPassengers).                *)

\* The number of clean records the ghost marks as counted by counter c.
countedAs(c) == Cardinality({k \in 1..Len(counted) : counted[k] = c})

\* C15: when the load phase of uploadAllSales or of uploadPassengers ends,
\* uploaded + already existing + errored is the number of clean records
\* attempted, whatever the store calls answered: every record was counted
\* by exactly one counter.
C15_CountersSumToCleanRecords ==
  /\ (script = "uploadPassengers" /\ pc = "done") =>
        /\ uploaded + alreadyExist + errors = Len(uniquePassengers)
        /\ uploaded = countedAs("uploaded") /\ alreadyExist = countedAs("exists")
        /\ errors = countedAs("error") /\ countedAs("none") = 0
  /\ salesLoadOver =>
        /\ uploaded + skippedDuplicates + errors = Len(finalSales)
        /\ uploaded = countedAs("uploaded") /\ skippedDuplicates = countedAs("exists")
        /\ errors = countedAs("error") /\ countedAs("none") = 0

\* The load phase of uploadAllSales has ended after store calls of every
\* kind of outcome: a record uploaded, one that already existed and one
\* whose individual upsert threw or failed.
C15_Witness ==
  /\ salesLoadOver
  /\ uploaded > 0 /\ skippedDuplicates > 0 /\ errors > 0

\* C16: a batch write that returns an error, of whatever kind, is followed
\* by an individual attempt of every record of the batch: a passenger is
\* recorded as failed only by the step of its own individual attempt, never
\* by the step of the batch write.
C16_FailedOnlyAfterIndividualAttempt ==
  [][(script = "uploadPassengers" /\ Len(failedPassengers') > Len(failedPassengers))
       => pc = "single"]_vars

\* C17: a record whose individual write fails with a uniqueness conflict is
\* counted as already existing and gets a quarantine entry: when the first
\* load of uploadPassengers is over, every record counted as already
\* existing has an entry in dirty_data.
C17_ExistingRecordQuarantined ==
  (script = "uploadPassengers" /\ pc = "done" /\ runNo = 1) =>
     \A k \in 1..Len(uniquePassengers) :
        counted[k] = "exists" =>
           \E d \in 1..Len(dirty_data) : dirty_data[d].original_data = uniquePassengers[k]

----------------------------------------------------------------------------
(* Properties of the flight standardizer (SpecProcess).                     *)

\* C21: a flight record is clean only after the resolver was consulted for
\* its origin and its destination and both keys exist in dim_airport: when
\* processFlightData has returned, both airport keys of every clean flight
\* have a row in dim_airport.
C21_CleanFlightHasBothAirports ==
  (pcF = "processed" /\ fType = "flights") =>
     \A k \in 1..Len(cleanData) :
        /\ \E a \in store["dim_airport"] : a.airport_key = cleanData[k].origin_airport_key
        /\ \E a \in store["dim_airport"] : a.airport_key = cleanData[k].destination_airport_key

----------------------------------------------------------------------------
(* Properties of the passenger and airport standardizers (SpecFile).        *)

\* The four loyalty tiers in their canonical spelling.
LoyaltyTiers == {Lit.Platinum, Lit.Gold, Lit.Silver, Lit.Bronze}

\* C22: every clean passenger record has a loyalty_status that is one of
\* Platinum, Gold, Silver, Bronze in that spelling.  Stated for
\* processPassengerData.
C22_LoyaltyStatusIsATier ==
  (pcF = "processed" /\ fType = "passengers") =>
     \A k \in 1..Len(cleanData) : cleanData[k].loyalty_status \in LoyaltyTiers

\* C23: standardizeCountry returns "Unknown" for every empty or absent
\* country, whatever dim_country_hierarchy holds: when every row of an
\* airport file has an empty country, every clean airport has the country
\* "Unknown".
C23_EmptyCountryIsUnknown ==
  ( /\ pcF = "processed" /\ fType = "airports"
    /\ \A r \in 1..Len(data) : field(hdrs, data[r], Col.Country) \in {Undefined, <<>>} )
  => \A k \in 1..Len(cleanData) : cleanData[k].country = Lit.Unknown

----------------------------------------------------------------------------
(* Properties of the sales standardizers, continued (SpecProcess,           *)
(* SpecSales).                                                              *)

\* C24: a sales row is rejected for an amount reason exactly when its
\* TicketPrice is wholly missing, and both sales standardizers decide alike:
\* a row that processSalesFile rejects for its missing ticket price is in
\* the dirtyData of processSalesData, and every row in that dirtyData is one
\* processSalesFile rejects.
C24_MissingTicketPriceRejected ==
  (pcF = "processed" /\ fType \in {"travel_agency_sales", "corporate_sales"}) =>
     \A r \in 1..Len(data) :
        (\E d \in 1..Len(dirtyData) : dirtyData[d].row = data[r]) <=> rejectReason(data[r]) # ""

\* C25: in processSalesFile a key is in the seen set only if a clean record
\* carries it, so a row quarantined as a duplicate within the file follows
\* a clean row with the same transaction id.
C25_SeenIdsAreCleanIds ==
  (script = "uploadAllSales" /\ pc = "file") =>
     \A id \in seenTransactionIds : \E k \in 1..Len(sales) : sales[k].transaction_id = id

\* C29: the cross-file duplicate list of uploadAllSales is always empty, and
\* finalSales is the clean output of the travel agency file followed by the
\* clean output of the corporate file.
C29_NoCrossFileDuplicates ==
  [][ /\ crossFileDuplicates' = <<>>
      /\ (script = "uploadAllSales" /\ pc = "file" /\ pc' # "file") =>
            finalSales' = travelSales \o sales ]_vars

\* Both files gave a clean sale for the same digits: the travel agency
\* file as TA and the corporate file as CO.
C29_Witness ==
  /\ salesLoadOver
  /\ \E i, j \in 1..Len(finalSales) :
        /\ finalSales[i].sales_source = "travel_agency"
        /\ finalSales[j].sales_source = "corporate"
        /\ SubSeq(finalSales[i].transaction_id, 3, 8) = SubSeq(finalSales[j].transaction_id, 3, 8)


----------------------------------------------------------------------------
(* Properties of the flight load (SpecFlights).                             *)

\* C26: getOrCreateAirport creates a placeholder only for a key that is
\* absent from dim_airport: no step of the flight load changes a row that
\* dim_airport already holds, whatever the lookup answered (a row, no row, or
\* an error).
C26_ExistingAirportNeverOverwritten ==
  [][ script = "uploadFlights" =>
         \A a \in store["dim_airport"] : a \in store'["dim_airport"] ]_vars

\* C27: every key in airportCache has a row in dim_airport, and
\* getOrCreateAirport has returned true only for keys that are in the cache.
C27_CacheIsSound ==
  script = "uploadFlights" =>
     /\ \A code \in airportCache :
           \E a \in store["dim_airport"] : a.airport_key = code
     /\ (pc \in {"dest", "verify"} /\ originOk) =>
           originCode(rawRows[rowIdx]) \in airportCache
     /\ (pc = "verify" /\ destOk) =>
           destinationCode(rawRows[rowIdx]) \in airportCache

\* A state in which one call created and cached a placeholder and returned
\* true, and the other call returned false on an upsert error.
C27_Witness ==
  /\ script = "uploadFlights" /\ pc = "verify"
  /\ originOk /\ ~destOk
  /\ placeholderOf(originCode(rawRows[rowIdx])) \in store["dim_airport"]
  /\ originCode(rawRows[rowIdx]) \in airportCache
  /\ destinationCode(rawRows[rowIdx]) \notin airportCache

\* C28: every row of dim_airport written by the flight load has an
\* airport_key that is uppercase, trimmed and exactly 3 characters long.
C28_AirportKeyHasThreeCharacters ==
  script = "uploadFlights" =>
     \A a \in store["dim_airport"] :
        /\ Len(a.airport_key) = 3
        /\ a.airport_key = toUpperCase(trim(a.airport_key))


----------------------------------------------------------------------------
(* Properties of readCSVHeaders (SpecHeaders).                              *)

\* C30: readCSVHeaders always settles: for every sequence of stream events,
\* the one of a file with no header line and no rows included, the promise
\* is eventually resolved or rejected; and once a 'headers' event occurred
\* the promise is resolved with that header list, never with the empty list.
C30_ReadCSVHeadersSettles ==
  /\ <>(promise.state # "pending")
  /\ [](\A k \in 1..Len(streamEvents.emitted) :
           streamEvents.emitted[k].type = "headers" =>
              /\ promise = [state |-> "resolved", value |-> streamEvents.emitted[k].csvHeaders]
              /\ promise.value # <<>>)

=============================================================================
